---- MODULE Spec2Model ----
(***************************************************************************)
(* A model of the German compound tokenizer: the Dictionary (word set,     *)
(* FST index, text file and FST file on disk), the CompoundSplitter with   *)
(* its LRU cache, and the Tokenizer that owns both.                        *)
(*                                                                         *)
(* A string is a sequence of runes; a rune is written as a TLA+ string:    *)
(* "a".."z", "A", "B", "S", "ae" (a-umlaut), "AE" (A-umlaut), "sz" (sharp s),   *)
(* "#", " ", "nl" (line feed), "uml" (the combining diaeresis U+0308),     *)
(* "ash" (the ligature ae, U+00E6), "lq", "dq" (the quotation marks U+201E *)
(* and U+0022), the digits "0".."9" and "fffd" (U+FFFD, the replacement    *)
(* character). A string handed in by a caller may also hold "xFF": a byte  *)
(* that is not part of any UTF-8 encoding.                                 *)
(***************************************************************************)
EXTENDS Integers, Sequences, FiniteSets, TLC

\* ------------------------------------------------------------------ runes

Letters == << "a", "b", "c", "d", "e", "f", "g", "h", "i", "j", "k", "l", "m",
              "n", "o", "p", "q", "r", "s", "t", "u", "v", "w", "x", "y", "z" >>

\* The Unicode code point of a rune; sort.Strings orders strings by their
\* UTF-8 bytes, which is the order of the code points.
Code(c) ==
    IF \E i \in DOMAIN Letters : Letters[i] = c
    THEN 96 + (CHOOSE i \in DOMAIN Letters : Letters[i] = c)
    ELSE CASE c = "nl" -> 10
           [] c = " "  -> 32
           [] c = "#"  -> 35
           [] c = "A"  -> 65
           [] c = "B"  -> 66
           [] c = "S"  -> 83
           [] c = "AE" -> 196
           [] c = "sz" -> 223
           [] c = "ae" -> 228

\* unicode.ToLower on one rune; strings.ToLower writes U+FFFD for a byte that
\* is not UTF-8.
LowerRune(c) ==
    CASE c = "A"   -> "a"
      [] c = "B"   -> "b"
      [] c = "S"   -> "s"
      [] c = "AE"  -> "ae"
      [] c = "xFF" -> "fffd"
      [] OTHER     -> c

\* strings.ToLower
ToLower(w) == [i \in DOMAIN w |-> LowerRune(w[i])]

\* The replacement normalizeUmlauts makes for one rune (o- and u-umlaut are
\* not runes of this model).
FoldRune(c) ==
    CASE c = "ae" -> << "a" >>
      [] c = "AE" -> << "a" >>
      [] c = "sz" -> << "s", "s" >>
      [] OTHER    -> << c >>

RECURSIVE normalizeUmlauts(_)
normalizeUmlauts(s) ==
    IF s = << >> THEN << >>
    ELSE FoldRune(Head(s)) \o normalizeUmlauts(Tail(s))

\* strings.HasSuffix and strings.TrimSuffix
HasSuffix(s, suf) ==
    /\ Len(suf) <= Len(s)
    /\ SubSeq(s, Len(s) - Len(suf) + 1, Len(s)) = suf

TrimSuffix(s, suf) ==
    IF HasSuffix(s, suf) THEN SubSeq(s, 1, Len(s) - Len(suf)) ELSE s

germanSuffixes == <<
    << "u", "n", "g", "e", "n" >>, << "s", "c", "h", "a", "f", "t" >>,
    << "h", "e", "i", "t", "e", "n" >>, << "k", "e", "i", "t", "e", "n" >>,
    << "u", "n", "g" >>, << "h", "e", "i", "t" >>, << "k", "e", "i", "t" >>,
    << "t", "i", "o", "n" >>, << "i", "s", "c", "h" >>, << "l", "i", "c", "h" >>,
    << "c", "h", "e", "n" >>, << "l", "e", "i", "n" >>,
    << "h", "a", "f", "t" >>, << "b", "a", "r" >>, << "s", "a", "m" >>,
    << "t", "u", "m" >>, << "i", "g" >>, << "e", "r" >>, << "e", "n" >>,
    << "e", "m" >>, << "e", "s" >>,
    << "s", "t" >>, << "n", "d" >>, << "t", "e" >>, << "e", "l" >>,
    << "l", "e" >>, << "s", "e" >>, << "sz", "e" >>, << "z", "e" >>,
    << "e" >>, << "s" >>, << "n" >>, << "t" >> >>

\* ------------------------------------------------------- the FST index
\* An index is [open |-> BOOLEAN, keys |-> set of strings]; open = FALSE is
\* the nil pointer that rebuildFST and Close leave in d.fst.

NilFST == [open |-> FALSE, keys |-> {}]

OpenFST(ks) == [open |-> TRUE, keys |-> ks]

\* Dictionary.Contains on an open index: the exact-match lookup of the
\* lowercased word.
Contains(fst, word) == ToLower(word) \in fst.keys

\* --------------------------------------------------- CompoundSplitter

isWordInDict(fst, word) ==
    LET lower == ToLower(word)
        normalized == normalizeUmlauts(lower)
    IN  \/ Contains(fst, lower)
        \/ normalized /= lower /\ Contains(fst, normalized)

\* Whether the i-th suffix ends the word and leaves a stem of two or more
\* runes that is in the index, as it is or folded: the condition under which
\* the i-th iteration of the suffix loop returns true.
StemFound(suffixes, fst, lower, i) ==
    LET suffix == suffixes[i]
        stem == TrimSuffix(lower, suffix)
    IN  /\ HasSuffix(lower, suffix)
        /\ Len(stem) >= 2
        /\ \/ Contains(fst, stem)
           \/ Contains(fst, normalizeUmlauts(stem))

\* The suffix loop leaving at the first suffix the word ends with, whether
\* or not its stem is found.
SuffixLoop_firstMatchWins(suffixes, fst, lower) ==
    \E i \in DOMAIN suffixes :
        /\ HasSuffix(lower, suffixes[i])
        /\ \A j \in 1 .. i - 1 : ~HasSuffix(lower, suffixes[j])
        /\ StemFound(suffixes, fst, lower, i)

\* The suffix loop of isValidWord: it returns true in the first iteration
\* whose stem is found, every earlier iteration having gone on to the next
\* suffix, and false when the list is exhausted.
SuffixLoop(suffixes, fst, lower) ==
    \E i \in DOMAIN suffixes :
        /\ StemFound(suffixes, fst, lower, i)
        /\ \A j \in 1 .. i - 1 : ~StemFound(suffixes, fst, lower, j)

\* isValidWord trying the suffixes in the order of the list it is given.
isValidWordOver(suffixes, fst, word) ==
    LET lower == ToLower(word)
        normalized == normalizeUmlauts(lower)
    IN  \/ Contains(fst, lower)
        \/ normalized /= lower /\ Contains(fst, normalized)
        \/ SuffixLoop(suffixes, fst, lower)

isValidWord(fst, word) == isValidWordOver(germanSuffixes, fst, word)

\* The inner loop scanning from length 2 upwards: the shortest validating
\* prefix instead of the longest.
LongestMatch_shortestFirst(fst, remaining, length) ==
    LET valid == { n \in 2 .. length :
                     LET prefix == SubSeq(remaining, 1, n)
                     IN  IF n = Len(remaining) THEN isValidWord(fst, prefix)
                         ELSE isWordInDict(fst, prefix) }
    IN  IF valid = {} THEN 0
        ELSE CHOOSE n \in valid : \A m \in valid : n <= m

\* The inner loop of greedySplit: the greatest length in 2..Len(remaining)
\* whose prefix validates (lenient when nothing remains after it, strict
\* otherwise), or 0 when there is none.
RECURSIVE LongestMatch(_, _, _)
LongestMatch(fst, remaining, length) ==
    IF length < 2 THEN 0
    ELSE LET prefix == SubSeq(remaining, 1, length)
             rest == SubSeq(remaining, length + 1, Len(remaining))
             isValid == IF Len(rest) = 0 THEN isValidWord(fst, prefix)
                        ELSE isWordInDict(fst, prefix)
         IN  IF isValid THEN length
             ELSE LongestMatch(fst, remaining, length - 1)

\* The outer loop appending the umlaut-folded lookup key instead of the text.
RECURSIVE GreedyLoop_folded(_, _, _)
GreedyLoop_folded(fst, segments, remaining) ==
    IF Len(remaining) = 0 THEN [found |-> TRUE, segments |-> segments]
    ELSE LET length == LongestMatch(fst, remaining, Len(remaining))
         IN  IF length = 0 THEN [found |-> FALSE, segments |-> segments]
             ELSE GreedyLoop_folded(fst,
                     Append(segments,
                            normalizeUmlauts(SubSeq(remaining, 1, length))),
                     SubSeq(remaining, length + 1, Len(remaining)))

\* The outer loop of greedySplit; found = FALSE is the early return taken when
\* no prefix validates at some position.
RECURSIVE GreedyLoop(_, _, _)
GreedyLoop(fst, segments, remaining) ==
    IF Len(remaining) = 0 THEN [found |-> TRUE, segments |-> segments]
    ELSE LET length == LongestMatch(fst, remaining, Len(remaining))
         IN  IF length = 0 THEN [found |-> FALSE, segments |-> segments]
             ELSE GreedyLoop(fst,
                             Append(segments, SubSeq(remaining, 1, length)),
                             SubSeq(remaining, length + 1, Len(remaining)))

\* greedySplit returning the segments accepted so far when a position fails.
greedySplit_partial(fst, word) ==
    LET r == GreedyLoop(fst, << >>, word)
    IN  IF r.found \/ r.segments /= << >> THEN r.segments ELSE << word >>

greedySplit(fst, word) ==
    LET r == GreedyLoop(fst, << >>, word)
    IN  IF r.found THEN r.segments ELSE << word >>

\* The re-validation holding every segment to the strict check.
allSegmentsValid_strict(fst, segments) ==
    \A i \in DOMAIN segments :
        /\ Len(segments[i]) >= 2
        /\ isWordInDict(fst, segments[i])

allSegmentsValid(fst, segments) ==
    \A i \in DOMAIN segments :
        /\ Len(segments[i]) >= 2
        /\ isValidWord(fst, segments[i])

\* splitUncached without its fallback to the single original word.
splitUncached_noFallback(fst, word) == greedySplit(fst, word)

\* splitUncached asking for more than two segments.
splitUncached_moreThanTwo(fst, word) ==
    LET segments == greedySplit(fst, word)
    IN  IF allSegmentsValid(fst, segments) /\ Len(segments) > 2
        THEN segments
        ELSE << word >>

splitUncached(fst, word) ==
    LET segments == greedySplit(fst, word)
    IN  IF allSegmentsValid(fst, segments) /\ Len(segments) > 1
        THEN segments
        ELSE << word >>

\* The Dictionary lookups of one splitUncached call dereference d.fst: on the
\* nil index they panic. A word of fewer than 2 runes is never looked up.
SplitLooksUp(word) == Len(word) >= 2

\* ------------------------------------------------------- the LRU cache
\* lru.Cache as the list of its entries, most recently used first. The list
\* is written in runs: an item [key, val, more] with more = 0 is the entry
\* (key, val); with more = n > 0 its key is a decimal numeral and it stands
\* for the n + 1 entries of that numeral and the n numerals after it, in
\* this order, each cached as its own only segment.

CacheSize == 100000

Digits == << "0", "1", "2", "3", "4", "5", "6", "7", "8", "9" >>

\* strconv.Itoa: the decimal numeral of i as a word.
RECURSIVE Numeral(_)
Numeral(i) ==
    IF i < 10 THEN << Digits[i + 1] >>
    ELSE Append(Numeral(i \div 10), Digits[(i % 10) + 1])

IsDigit(c) == \E i \in DOMAIN Digits : Digits[i] = c

RECURSIVE NumeralValue(_)
NumeralValue(k) ==
    IF k = << >> THEN 0
    ELSE 10 * NumeralValue(SubSeq(k, 1, Len(k) - 1))
             + (CHOOSE i \in DOMAIN Digits : Digits[i] = k[Len(k)]) - 1

IsNumeral(k) ==
    /\ k /= << >>
    /\ Len(k) <= 9
    /\ \A i \in DOMAIN k : IsDigit(k[i])
    /\ Numeral(NumeralValue(k)) = k

CacheEntry(k, v) == [key |-> k, val |-> v, more |-> 0]

\* The entries of the numerals lo .. hi, lo first.
NumeralRun(lo, hi) ==
    [key |-> Numeral(lo), val |-> << Numeral(lo) >>, more |-> hi - lo]

\* The item e has an entry of the key k.
RunCovers(e, k) ==
    IF e.more = 0 THEN e.key = k
    ELSE /\ IsNumeral(k)
         /\ NumeralValue(k) >= NumeralValue(e.key)
         /\ NumeralValue(k) <= NumeralValue(e.key) + e.more

\* The item e less the entry of the key k.
RunWithout(e, k) ==
    IF ~RunCovers(e, k) THEN << e >>
    ELSE IF e.more = 0 THEN << >>
    ELSE LET lo == NumeralValue(e.key)
             hi == lo + e.more
             n == NumeralValue(k)
         IN  (IF n > lo THEN << NumeralRun(lo, n - 1) >> ELSE << >>)
                 \o (IF n < hi THEN << NumeralRun(n + 1, hi) >> ELSE << >>)

\* cache.Len
RECURSIVE CacheLen(_)
CacheLen(entries) ==
    IF entries = << >> THEN 0
    ELSE 1 + Head(entries).more + CacheLen(Tail(entries))

\* The first n entries of the list.
RECURSIVE CacheTake(_, _)
CacheTake(entries, n) ==
    IF n <= 0 \/ entries = << >> THEN << >>
    ELSE LET e == Head(entries)
         IN  IF 1 + e.more <= n
             THEN << e >> \o CacheTake(Tail(entries), n - 1 - e.more)
             ELSE << [e EXCEPT !.more = n - 1] >>

CacheHas(entries, k) == \E i \in DOMAIN entries : RunCovers(entries[i], k)

CacheIndex(entries, k) ==
    CHOOSE i \in DOMAIN entries : RunCovers(entries[i], k)

RECURSIVE CacheWithout(_, _)
CacheWithout(entries, k) ==
    IF entries = << >> THEN << >>
    ELSE RunWithout(Head(entries), k) \o CacheWithout(Tail(entries), k)

\* cache.Get handing back the key where the value is due.
CacheGetVal_key(entries, k) == << k >>

\* cache.Get on a hit: the value, and the entry moved to the front.
CacheGetVal(entries, k) ==
    LET e == entries[CacheIndex(entries, k)]
    IN  IF e.more = 0 THEN e.val ELSE << k >>

\* cache.Get that leaves the entry where it is.
CacheTouch_noMove(entries, k) == entries

CacheTouch(entries, k) ==
    << CacheEntry(k, CacheGetVal(entries, k)) >> \o CacheWithout(entries, k)

\* cache.Add handed the unsplit word instead of the computed result.
CacheAdd_storesWord(entries, k, v) ==
    << CacheEntry(k, << k >>) >> \o CacheWithout(entries, k)

\* cache.Add that never evicts.
CacheAdd_noEvict(entries, k, v) ==
    << CacheEntry(k, v) >> \o CacheWithout(entries, k)

\* cache.Add: insert or update at the front, evict the oldest over capacity.
CacheAdd(entries, k, v) ==
    LET added == << CacheEntry(k, v) >> \o CacheWithout(entries, k)
    IN  IF CacheLen(added) > CacheSize THEN CacheTake(added, CacheSize)
        ELSE added

\* ------------------------------------------------- files of the Dictionary

\* bytes.Compare on two strings, as sort.Strings orders them.
RECURSIVE Less(_, _)
Less(a, b) ==
    IF b = << >> THEN FALSE
    ELSE IF a = << >> THEN TRUE
    ELSE IF Head(a) /= Head(b) THEN Code(Head(a)) < Code(Head(b))
    ELSE Less(Tail(a), Tail(b))

\* sort.Strings over the keys of the word map.
RECURSIVE SortStrings(_)
SortStrings(S) ==
    IF S = {} THEN << >>
    ELSE LET m == CHOOSE x \in S : \A y \in S : x = y \/ Less(x, y)
         IN  << m >> \o SortStrings(S \ {m})

\* The bytes saveTextFile writes for a list of words: each word and "\n".
RECURSIVE FileText(_)
FileText(list) ==
    IF list = << >> THEN << >>
    ELSE Head(list) \o << "nl" >> \o FileText(Tail(list))

\* bufio.Scanner with ScanLines: the lines of a text, without their line
\* feeds; a last line without a line feed counts when it is not empty.
RECURSIVE ScanLines(_, _)
ScanLines(text, line) ==
    IF text = << >> THEN (IF line = << >> THEN << >> ELSE << line >>)
    ELSE IF Head(text) = "nl" THEN << line >> \o ScanLines(Tail(text), << >>)
    ELSE ScanLines(Tail(text), Append(line, Head(text)))

\* strings.TrimSpace
RECURSIVE TrimSpace(_)
TrimSpace(s) ==
    IF s = << >> THEN s
    ELSE IF Head(s) = " " THEN TrimSpace(Tail(s))
    ELSE IF s[Len(s)] = " " THEN TrimSpace(SubSeq(s, 1, Len(s) - 1))
    ELSE s

\* loadTextFile that takes the comment lines for words.
loadTextFile_keepsComments(text) ==
    LET lines == ScanLines(text, << >>)
    IN  { ToLower(TrimSpace(lines[i])) :
            i \in { j \in DOMAIN lines : TrimSpace(lines[j]) /= << >> } }

\* The word set loadTextFile reads from a text.
loadTextFile(text) ==
    LET lines == ScanLines(text, << >>)
    IN  { ToLower(TrimSpace(lines[i])) :
            i \in { j \in DOMAIN lines :
                      /\ TrimSpace(lines[j]) /= << >>
                      /\ Head(TrimSpace(lines[j])) /= "#" } }

\* The FST file on disk: absent, corrupt (created but not completely built)
\* or valid with the keys it was built from.
AbsentFile == [state |-> "absent", keys |-> {}]

CorruptFile == [state |-> "corrupt", keys |-> {}]

ValidFile(ks) == [state |-> "valid", keys |-> ks]

\* The text file on disk.
NoText == [exists |-> FALSE, text |-> << >>]

TextOf(t) == [exists |-> TRUE, text |-> t]

\* What the file system does to one rebuild: every step works ("ok"), or the
\* first failing step is os.Create of the FST file ("create"), the vellum
\* builder (New, Insert or Close: "build"), vellum.Open of the built file
\* ("open"), os.Create of the text file ("txtcreate") or a WriteString into
\* it ("txtwrite").
IOOutcomes == {"ok", "create", "build", "open", "txtcreate", "txtwrite"}

\* saveTextFile: the text file afterwards and whether it returned an error.
\* A failing WriteString leaves the first k words in the file.
saveTextFile(ws, txt, io, k) ==
    LET sortedWords == SortStrings(ws)
    IN  CASE io = "txtcreate" -> [txtFile |-> txt, err |-> TRUE]
          [] io = "txtwrite" ->
                [txtFile |-> TextOf(FileText(SubSeq(sortedWords, 1, k))),
                 err |-> TRUE]
          [] OTHER -> [txtFile |-> TextOf(FileText(sortedWords)), err |-> FALSE]

\* rebuildFST that builds the index and leaves the text file for a later call.
rebuildFST_noSave(ws, fstF, txt, io, k) ==
    IF io \in {"create", "build", "open"}
    THEN [fst |-> NilFST, fstFile |-> fstF, txtFile |-> txt, err |-> TRUE]
    ELSE [fst |-> OpenFST(ws), fstFile |-> ValidFile(ws), txtFile |-> txt,
          err |-> FALSE]

\* rebuildFST: d.fst, the two files and the error afterwards.
rebuildFST(ws, fstF, txt, io, k) ==
    CASE io = "create" ->
            [fst |-> NilFST, fstFile |-> fstF, txtFile |-> txt, err |-> TRUE]
      [] io = "build" ->
            [fst |-> NilFST, fstFile |-> CorruptFile, txtFile |-> txt,
             err |-> TRUE]
      [] io = "open" ->
            [fst |-> NilFST, fstFile |-> ValidFile(ws), txtFile |-> txt,
             err |-> TRUE]
      [] OTHER ->
            LET saved == saveTextFile(ws, txt, io, k)
            IN  [fst |-> OpenFST(ws), fstFile |-> ValidFile(ws),
                 txtFile |-> saved.txtFile, err |-> saved.err]

\* The outcomes the file system can produce for a rebuild of the word set
\* ws, as pairs << io, k >>: a WriteString can fail only when there is a word
\* to write, after k of them were written.
Outcomes(ws) ==
    { << io, 0 >> : io \in IOOutcomes \ {"txtwrite"} }
        \cup { << "txtwrite", k >> : k \in 0 .. Cardinality(ws) - 1 }

\* loadOrBuildFST that rebuilds whatever it finds.
loadOrBuildFST_alwaysRebuild(ws, fstF, txt, io, k) ==
    rebuildFST(ws, fstF, txt, io, k)

\* loadOrBuildFST: a valid FST file is opened as it is, anything else is
\* rebuilt from the words.
loadOrBuildFST(ws, fstF, txt, io, k) ==
    IF fstF.state = "valid"
    THEN [fst |-> OpenFST(fstF.keys), fstFile |-> fstF, txtFile |-> txt,
          err |-> FALSE]
    ELSE rebuildFST(ws, fstF, txt, io, k)

\* ------------------------------------------------------- the Normalizer

\* norm.NFKD.String: an umlauted vowel becomes the vowel and the combining
\* diaeresis; sharp s has no decomposition.
RECURSIVE NFKDDecompose(_)
NFKDDecompose(s) ==
    IF s = << >> THEN << >>
    ELSE (CASE Head(s) = "ae" -> << "a", "uml" >>
            [] Head(s) = "AE" -> << "A", "uml" >>
            [] OTHER          -> << Head(s) >>) \o NFKDDecompose(Tail(s))

RemoveControlChars(s) == SelectSeq(s, LAMBDA c : c /= "nl")

Lowercase(s) == ToLower(s)

NormalizeQuotes(s) == [i \in DOMAIN s |-> IF s[i] = "lq" THEN "dq" ELSE s[i]]

RECURSIVE ExpandLigatures(_)
ExpandLigatures(s) ==
    IF s = << >> THEN << >>
    ELSE (IF Head(s) = "ash" THEN << "a", "e" >> ELSE << Head(s) >>)
             \o ExpandLigatures(Tail(s))

RECURSIVE ConvertEszett(_)
ConvertEszett(s) ==
    IF s = << >> THEN << >>
    ELSE (IF Head(s) = "sz" THEN << "s", "s" >> ELSE << Head(s) >>)
             \o ConvertEszett(Tail(s))

RemoveCombiningMarks(s) == SelectSeq(s, LAMBDA c : c /= "uml")

\* The steps of NormalizerConfig in the order buildNormalizer appends them.
\* StemGerman, the Snowball stemmer of an outside library, is not a step of
\* this model: its configurations have StemGerman: false.
NormalizerSteps == << "NFKDDecompose", "RemoveControlChars", "Lowercase",
                      "NormalizeQuotes", "ExpandLigatures", "ConvertEszett",
                      "RemoveCombiningMarks" >>

\* buildNormalizer for the set nc of the steps that are enabled.
buildNormalizer(nc) == SelectSeq(NormalizerSteps, LAMBDA n : n \in nc)

ApplyStep(step, s) ==
    CASE step = "NFKDDecompose"        -> NFKDDecompose(s)
      [] step = "RemoveControlChars"   -> RemoveControlChars(s)
      [] step = "Lowercase"            -> Lowercase(s)
      [] step = "NormalizeQuotes"      -> NormalizeQuotes(s)
      [] step = "ExpandLigatures"      -> ExpandLigatures(s)
      [] step = "ConvertEszett"        -> ConvertEszett(s)
      [] step = "RemoveCombiningMarks" -> RemoveCombiningMarks(s)

\* Normalizer.Normalize: the steps applied in order.
RECURSIVE Normalize(_, _)
Normalize(steps, s) ==
    IF steps = << >> THEN s
    ELSE Normalize(Tail(steps), ApplyStep(Head(steps), s))

LowercaseOnly(s) == ToLower(s)

\* ------------------------------------------------------------ SplitWords

\* []rune(text): the code points of a string; a byte that is not UTF-8 is
\* decoded as U+FFFD. string(runes) encodes every rune as it is.
Runes(text) == [i \in DOMAIN text |-> IF text[i] = "xFF" THEN "fffd" ELSE text[i]]

\* unicode.IsLetter(r) || unicode.IsNumber(r)
getTokenType(r) ==
    IF r \in {" ", "nl", "#", "uml", "lq", "dq", "fffd"} THEN "TokenSeparator"
    ELSE "TokenWord"

\* The last position of the run of one type that starts at position i.
RECURSIVE RunEnd(_, _)
RunEnd(text, i) ==
    IF i < Len(text) /\ getTokenType(text[i + 1]) = getTokenType(text[i])
    THEN RunEnd(text, i + 1)
    ELSE i

\* SplitWords from position start of the runes on (positions count from 1
\* here, the Start and End of a RawToken from 0 as in the source).
RECURSIVE SplitWordsFrom(_, _)
SplitWordsFrom(runes, start) ==
    IF start > Len(runes) THEN << >>
    ELSE LET e == RunEnd(runes, start)
         IN  << [Text |-> SubSeq(runes, start, e),
                 Type |-> getTokenType(runes[start]),
                 Start |-> start - 1, End |-> e] >>
                 \o SplitWordsFrom(runes, e + 1)

SplitWords(text) == SplitWordsFrom(Runes(text), 1)

\* ------------------------------------------------------------- the state

VARIABLES
    proc,       \* "down": no Tokenizer; "up": constructed; "panicked"
    words,      \* Dictionary.words
    fst,        \* Dictionary.fst
    txtFile,    \* the file at Dictionary.txtPath
    fstFile,    \* the file at Dictionary.fstPath
    cacheOn,    \* CompoundSplitter.cache /= nil
    cache,      \* the entries of CompoundSplitter.cache
    ret,        \* the last call: its argument and what it returned
    kept,       \* history: the last AddWord or RemoveWord that succeeded, until
                \* a later AddWord or RemoveWord of the same word fails
    config,     \* the Config handed to NewTokenizer
    mu,         \* Dictionary.mu
    thr,        \* the goroutines that call the Dictionary at the same time
    settled     \* history: d.fst as the last Unlock of d.mu left it

disk == << txtFile, fstFile >>

lexicon == << words, fst, txtFile, fstFile >>

vars == << proc, words, fst, txtFile, fstFile, cacheOn, cache, ret, kept,
          config, mu, thr, settled >>

NoneKept == [op |-> "none", word |-> << >>]

NoRet == [op |-> "none", arg |-> << >>, err |-> FALSE, failed |-> FALSE,
          segs |-> << >>, found |-> FALSE, hit |-> FALSE, out |-> << >>]

\* DefaultConfig, less the stemmer: the steps that are enabled.
AllSteps == { NormalizerSteps[i] : i \in DOMAIN NormalizerSteps }

InitConfig == [LowercaseOriginal |-> TRUE, Normalizers |-> AllSteps]

\* d.mu with nobody holding it, and no goroutine inside a Dictionary call.
FreeMu == [writer |-> "none", readers |-> {}]

Threads == {"g1", "g2", "g3"}

\* A goroutine outside every call. The fields from word on belong to a Split
\* call: the lowercased word, the locals of greedySplit (segments, remaining,
\* length), the result, whether the cache answered, and the history fields
\* late (the call began after a mutation and a ClearCache had returned),
\* iters (iterations of the outer loop begun) and lookups (Contains calls).
IdleThr == [pc |-> "idle", op |-> "none", arg |-> << >>, io |-> << "ok", 0 >>,
            saw |-> NilFST, found |-> FALSE, count |-> 0, err |-> FALSE,
            word |-> << >>, segments |-> << >>, remaining |-> << >>,
            length |-> 0, result |-> << >>, hit |-> FALSE, late |-> FALSE,
            iters |-> 0, lookups |-> 0]

\* Nothing settled yet: no Unlock has happened.
NoneSettled == [fst |-> NilFST, ok |-> TRUE]

NoThreads == [t \in Threads |-> IdleThr]

\* What a program with one goroutine leaves alone.
conc == << mu, thr, settled >>

\* The words the callers pass to the AddWord and RemoveWord of the Dictionary,
\* to its Contains, and to the AddWord and RemoveWord of the Tokenizer.
MutWords == { << "s", "s" >>, << "S", "s" >>, << "#", "a" >> }

LookupWords == MutWords \cup { << >>, << "a", "a" >>, << "A", "a" >> }

TokWords == { << "s", "s" >>, << "S", "s" >>, << "a", "a" >> }

\* The words the callers pass to Split.
SplitInputs == { << "a", "a", "s", "s" >>, << "A", "a", "s", "s" >>,
                 << "s", "s" >> }

\* The text files the program is started on (or none: NoText).
InitTexts == { FileText(<< << "a", "a" >> >>),
               << "#", " ", "c", "nl", "nl", "S", "s", "nl", " ", "a", "a" >> }

Init ==
    /\ proc = "down"
    /\ words = {}
    /\ fst = NilFST
    /\ txtFile \in { TextOf(t) : t \in InitTexts } \cup {NoText}
    /\ fstFile \in {AbsentFile, CorruptFile, ValidFile(loadTextFile(txtFile.text))}
    /\ cacheOn = FALSE
    /\ cache = << >>
    /\ ret = NoRet
    /\ kept = NoneKept
    /\ config = InitConfig
    /\ mu = FreeMu /\ thr = NoThreads /\ settled = NoneSettled

\* A constructor that hands out the Dictionary it has built so far when the
\* rebuild fails.
Construct_degraded(op, c, io, k) ==
    /\ proc /= "up"
    /\ kept' = NoneKept
    /\ IF ~txtFile.exists
       THEN /\ ret' = [NoRet EXCEPT !.op = op, !.err = TRUE,
                                    !.failed = TRUE]
            /\ proc' = "down"
            /\ words' = {} /\ fst' = NilFST
            /\ UNCHANGED << disk, cacheOn, cache >>
       ELSE LET ws == loadTextFile(txtFile.text)
                r == loadOrBuildFST(ws, fstFile, txtFile, io, k)
            IN  /\ txtFile' = r.txtFile
                /\ fstFile' = r.fstFile
                /\ ret' = [NoRet EXCEPT !.op = op, !.err = r.err,
                                        !.failed = r.err]
                /\ proc' = "up" /\ words' = ws /\ fst' = r.fst
                /\ cacheOn' = c /\ cache' = << >>

\* NewDictionary (loadTextFile, then loadOrBuildFST), and for a Tokenizer the
\* CompoundSplitter built over it, with the cache (c) or without.
Construct(op, c, io, k) ==
    /\ proc /= "up"
    /\ kept' = NoneKept
    /\ IF ~txtFile.exists
       THEN /\ ret' = [NoRet EXCEPT !.op = op, !.err = TRUE,
                                    !.failed = TRUE]
            /\ proc' = "down"
            /\ words' = {} /\ fst' = NilFST
            /\ UNCHANGED << disk, cacheOn, cache >>
       ELSE LET ws == loadTextFile(txtFile.text)
                r == loadOrBuildFST(ws, fstFile, txtFile, io, k)
            IN  /\ txtFile' = r.txtFile
                /\ fstFile' = r.fstFile
                /\ ret' = [NoRet EXCEPT !.op = op, !.err = r.err,
                                        !.failed = r.err]
                /\ IF r.err
                   THEN /\ proc' = "down" /\ words' = {} /\ fst' = NilFST
                        /\ UNCHANGED << cacheOn, cache >>
                   ELSE /\ proc' = "up" /\ words' = ws /\ fst' = r.fst
                        /\ cacheOn' = c /\ cache' = << >>

NewDictionary(io, k) == Construct("NewDictionary", FALSE, io, k)

NewTokenizer(c, io, k) == Construct("NewTokenizer", c, io, k)

\* The program ends (defer dict.Close(), defer tok.Close()).
Exit ==
    /\ proc = "up"
    /\ proc' = "down"
    /\ words' = {} /\ fst' = NilFST
    /\ cacheOn' = FALSE /\ cache' = << >>
    /\ ret' = [NoRet EXCEPT !.op = "Exit"]
    /\ kept' = NoneKept
    /\ UNCHANGED disk

WordSetCalls == {"Dictionary.AddWord", "Dictionary.RemoveWord",
                 "Tokenizer.AddWord", "Tokenizer.RemoveWord"}

\* A mutation that puts the word set back when the rebuild fails.
Mutate_rollback(op, word, ws, io, k, tells) ==
    LET r == rebuildFST(ws, fstFile, txtFile, io, k)
    IN  /\ proc = "up"
        /\ words' = IF r.err THEN words ELSE ws
        /\ fst' = r.fst
        /\ txtFile' = r.txtFile
        /\ fstFile' = r.fstFile
        /\ ret' = [NoRet EXCEPT !.op = op, !.arg = word, !.failed = r.err,
                                !.err = tells /\ r.err]
        /\ kept' = IF op \notin WordSetCalls THEN kept
                    ELSE IF ~r.err THEN [op |-> op, word |-> ToLower(word)]
                    ELSE IF kept.word = ToLower(word) THEN NoneKept
                    ELSE kept
        /\ UNCHANGED << proc, cacheOn, cache >>

\* The body shared by AddWord, RemoveWord and RebuildFST: the word set is
\* changed, then rebuilt; tells says whether the caller is handed the error.
Mutate(op, word, ws, io, k, tells) ==
    LET r == rebuildFST(ws, fstFile, txtFile, io, k)
    IN  /\ proc = "up"
        /\ words' = ws
        /\ fst' = r.fst
        /\ txtFile' = r.txtFile
        /\ fstFile' = r.fstFile
        /\ ret' = [NoRet EXCEPT !.op = op, !.arg = word, !.failed = r.err,
                                !.err = tells /\ r.err]
        /\ kept' = IF op \notin WordSetCalls THEN kept
                    ELSE IF ~r.err THEN [op |-> op, word |-> ToLower(word)]
                    ELSE IF kept.word = ToLower(word) THEN NoneKept
                    ELSE kept
        /\ UNCHANGED << proc, cacheOn, cache >>

DictAddWord(word, io, k) ==
    Mutate("Dictionary.AddWord", word, words \cup {ToLower(word)}, io, k, TRUE)

DictRemoveWord(word, io, k) ==
    Mutate("Dictionary.RemoveWord", word, words \ {ToLower(word)}, io, k, TRUE)

\* Tokenizer.AddWord and Tokenizer.RemoveWord have no result: the error of
\* the Dictionary call is dropped, and the cache is left as it is.
TokAddWord(word, io, k) ==
    Mutate("Tokenizer.AddWord", word, words \cup {ToLower(word)}, io, k, FALSE)

TokRemoveWord(word, io, k) ==
    Mutate("Tokenizer.RemoveWord", word, words \ {ToLower(word)}, io, k, FALSE)

\* Dictionary.RebuildFST / Tokenizer.RebuildDictionary
RebuildFST(io, k) ==
    Mutate("RebuildFST", << >>, words, io, k, TRUE)

\* Dictionary.WordCount
WordCount(ws) == Cardinality(ws)

\* Dictionary.Contains: d.fst.Get on the nil index is a nil dereference.
DictContains(word) ==
    /\ proc = "up"
    /\ IF fst.open
       THEN /\ ret' = [NoRet EXCEPT !.op = "Contains", !.arg = word,
                                    !.found = Contains(fst, word)]
            /\ UNCHANGED proc
       ELSE /\ ret' = [NoRet EXCEPT !.op = "Contains", !.arg = word]
            /\ proc' = "panicked"
    /\ UNCHANGED << lexicon, cacheOn, cache, kept >>

\* Split that keys the cache by the word as it was passed.
Split_rawKey(word) ==
    LET lower == ToLower(word)
        isHit == cacheOn /\ CacheHas(cache, word)
    IN  /\ proc = "up"
        /\ IF isHit
           THEN /\ ret' = [NoRet EXCEPT !.op = "Split", !.arg = word,
                                        !.hit = TRUE,
                                        !.segs = CacheGetVal(cache, word)]
                /\ cache' = CacheTouch(cache, word)
                /\ UNCHANGED proc
           ELSE IF SplitLooksUp(lower) /\ ~fst.open
           THEN /\ ret' = [NoRet EXCEPT !.op = "Split", !.arg = word]
                /\ proc' = "panicked"
                /\ UNCHANGED cache
           ELSE LET result == splitUncached(fst, lower)
                IN  /\ ret' = [NoRet EXCEPT !.op = "Split", !.arg = word,
                                            !.segs = result]
                    /\ cache' = IF cacheOn THEN CacheAdd(cache, word, result)
                                ELSE cache
                    /\ UNCHANGED proc
        /\ UNCHANGED << lexicon, cacheOn, kept >>

\* CompoundSplitter.Split, as Tokenize calls it for a word run.
Split(word) ==
    LET lower == ToLower(word)
        isHit == cacheOn /\ CacheHas(cache, lower)
    IN  /\ proc = "up"
        /\ IF isHit
           THEN /\ ret' = [NoRet EXCEPT !.op = "Split", !.arg = word,
                                        !.hit = TRUE,
                                        !.segs = CacheGetVal(cache, lower)]
                /\ cache' = CacheTouch(cache, lower)
                /\ UNCHANGED proc
           ELSE IF SplitLooksUp(lower) /\ ~fst.open
           THEN /\ ret' = [NoRet EXCEPT !.op = "Split", !.arg = word]
                /\ proc' = "panicked"
                /\ UNCHANGED cache
           ELSE LET result == splitUncached(fst, lower)
                IN  /\ ret' = [NoRet EXCEPT !.op = "Split", !.arg = word,
                                            !.segs = result]
                    /\ cache' = IF cacheOn THEN CacheAdd(cache, lower, result)
                                ELSE cache
                    /\ UNCHANGED proc
        /\ UNCHANGED << lexicon, cacheOn, kept >>

\* CompoundSplitter.ClearCache / Tokenizer.ClearCache
ClearCache ==
    /\ proc = "up"
    /\ cache' = << >>
    /\ ret' = [NoRet EXCEPT !.op = "ClearCache"]
    /\ UNCHANGED << proc, lexicon, cacheOn, kept >>

\* CompoundSplitter.CacheSize() / Tokenizer.CacheSize() for a splitter with
\* the cache (on) or without, and the entries it holds.
CacheSizeOf(on, entries) == IF on THEN CacheLen(entries) ELSE 0

CacheEnabled == cacheOn

\* One Split call of Tokenize on the cache entries so far: the segments, the
\* entries afterwards, and whether the lookup hit the nil index.
SplitResult(entries, word) ==
    LET lower == ToLower(word)
    IN  IF cacheOn /\ CacheHas(entries, lower)
        THEN [segs |-> CacheGetVal(entries, lower),
              cache |-> CacheTouch(entries, lower), panic |-> FALSE]
        ELSE IF SplitLooksUp(lower) /\ ~fst.open
        THEN [segs |-> << >>, cache |-> entries, panic |-> TRUE]
        ELSE LET result == splitUncached(fst, lower)
             IN  [segs |-> result,
                  cache |-> IF cacheOn THEN CacheAdd(entries, lower, result)
                            ELSE entries,
                  panic |-> FALSE]

\* The append that does not look into resultSet.
Emit_always(results, v) == Append(results, v)

\* Tokenize: append v unless resultSet has it.
Emit(results, v) ==
    IF \E i \in DOMAIN results : results[i] = v THEN results
    ELSE Append(results, v)

\* The lowercase original emitted whatever the configuration says.
EmitOriginal_always(results, text) == Emit(results, LowercaseOnly(text))

\* Tokenize: the lowercase original of a word run, if enabled.
EmitOriginal(results, text) ==
    IF config.LowercaseOriginal THEN Emit(results, LowercaseOnly(text))
    ELSE results

\* Tokenize: the normalized segments of a word run.
RECURSIVE EmitSegments(_, _)
EmitSegments(results, segments) ==
    IF segments = << >> THEN results
    ELSE EmitSegments(
             Emit(results, Normalize(buildNormalizer(config.Normalizers),
                                     Head(segments))),
             Tail(segments))

\* The loop of Tokenize over the raw tokens.
RECURSIVE TokenizeLoop(_, _, _)
TokenizeLoop(rawTokens, results, entries) ==
    IF rawTokens = << >>
    THEN [results |-> results, cache |-> entries, panic |-> FALSE]
    ELSE LET raw == Head(rawTokens)
         IN  IF raw.Type /= "TokenWord"
             THEN TokenizeLoop(Tail(rawTokens), results, entries)
             ELSE LET sp == SplitResult(entries, raw.Text)
                  IN  IF sp.panic
                      THEN [results |-> results, cache |-> entries,
                            panic |-> TRUE]
                      ELSE TokenizeLoop(
                               Tail(rawTokens),
                               EmitSegments(EmitOriginal(results, raw.Text),
                                            sp.segs),
                               sp.cache)

\* Tokenizer.Tokenize
Tokenize(text) ==
    \E r \in { TokenizeLoop(SplitWords(text), << >>, cache) } :
        /\ proc = "up"
        /\ cache' = r.cache
        /\ IF r.panic
           THEN /\ ret' = [NoRet EXCEPT !.op = "Tokenize", !.arg = text]
                /\ proc' = "panicked"
           ELSE /\ ret' = [NoRet EXCEPT !.op = "Tokenize", !.arg = text,
                                        !.out = r.results]
                /\ UNCHANGED proc
        /\ UNCHANGED << lexicon, cacheOn, kept, config, conc >>

\* The word set NewDictionary is about to read, for the outcomes of its rebuild.
Loadable == IF txtFile.exists THEN loadTextFile(txtFile.text) ELSE {}

\* A program that uses the Dictionary alone, as cmd/dictmgr does.
NextDict ==
  /\ UNCHANGED << config, conc >>
  /\
    \/ IF txtFile.exists /\ fstFile.state /= "valid"
       THEN \E o \in Outcomes(Loadable) : NewDictionary(o[1], o[2])
       ELSE NewDictionary("ok", 0)
    \/ Exit
    \/ \E w \in MutWords :
          \/ \E o \in Outcomes(words \cup {ToLower(w)}) :
                DictAddWord(w, o[1], o[2])
          \/ \E o \in Outcomes(words \ {ToLower(w)}) :
                DictRemoveWord(w, o[1], o[2])
    \/ \E o \in Outcomes(words) : RebuildFST(o[1], o[2])
    \/ \E w \in LookupWords : DictContains(w)

SpecDict == Init /\ [][NextDict]_vars

\* A program that uses the Tokenizer.
NextTok ==
  /\ UNCHANGED << config, conc >>
  /\
    \/ \E c \in BOOLEAN :
          IF txtFile.exists /\ fstFile.state /= "valid"
          THEN \E o \in Outcomes(Loadable) : NewTokenizer(c, o[1], o[2])
          ELSE NewTokenizer(c, "ok", 0)
    \/ Exit
    \/ \E w \in TokWords :
          \/ \E o \in Outcomes(words \cup {ToLower(w)}) :
                TokAddWord(w, o[1], o[2])
          \/ \E o \in Outcomes(words \ {ToLower(w)}) :
                TokRemoveWord(w, o[1], o[2])
    \/ \E o \in Outcomes(words) : RebuildFST(o[1], o[2])
    \/ \E w \in SplitInputs : Split(w)
    \/ ClearCache

SpecTok == Init /\ [][NextTok]_vars

\* ------------------------------------------- Split over many words
\* A Tokenizer constructed on one of the dictionaries below splits one word,
\* and then the same word again, lowercased.

MaxLen == 4

Sigma == { "a", "ae", "s", "sz", "e" }

RECURSIVE Strings(_)
Strings(n) ==
    IF n = 0 THEN { << >> }
    ELSE LET shorter == Strings(n - 1)
         IN  shorter \cup { Append(x, c) : x \in { y \in shorter : Len(y) = n - 1 },
                                             c \in Sigma }

brand == << "b", "r", "a", "n", "d" >>
schutz == << "s", "c", "h", "u", "t", "z" >>
konzept == << "k", "o", "n", "z", "e", "p", "t" >>
beton == << "b", "e", "t", "o", "n" >>
waerme == << "w", "ae", "r", "m", "e" >>
daemmung == << "d", "ae", "m", "m", "u", "n", "g" >>
xyzxyz == << "x", "y", "z", "x", "y", "z" >>

SweepVocabulary == { << "a", "a" >>, << "s", "s" >>, << "ae", "s" >> }

SweepLexicons ==
    (SUBSET SweepVocabulary)
        \cup { { << "a", "s", "s" >> }, { << "a", "a" >>, << "a", "s", "s" >> },
               { << "a", "a" >>, << "a", "a", "s" >>, << "s", "s" >> } }
        \cup { {brand, schutz, konzept}, {beton}, {waerme, daemmung},
               {normalizeUmlauts(waerme), normalizeUmlauts(daemmung)} }

SweepInputs ==
    Strings(MaxLen)
        \cup { brand \o schutz \o konzept, beton, waerme \o daemmung, xyzxyz,
               brand \o schutz \o beton,
               << "B", "r", "a", "n", "d" >> \o schutz,
               << "A", "a", "S", "s" >>, << "AE", "s", "a", "a" >>,
               << "a", "a", "s", "s", "s" >> }

InitSweep ==
    /\ proc = "up"
    /\ words \in SweepLexicons
    /\ fst = OpenFST(words)
    /\ txtFile = TextOf(FileText(SortStrings(words)))
    /\ fstFile = ValidFile(words)
    /\ cacheOn \in BOOLEAN
    /\ cache = << >>
    /\ ret = NoRet
    /\ kept = NoneKept
    /\ config = InitConfig
    /\ mu = FreeMu /\ thr = NoThreads /\ settled = NoneSettled

NextSweep ==
  /\ UNCHANGED << config, conc >>
  /\
    \/ /\ ret.op = "none"
       /\ \E w \in SweepInputs : Split(w)
    \/ /\ ret.op = "Split"
       /\ Split(ToLower(ret.arg))

SpecSweep == InitSweep /\ [][NextSweep]_vars

\* --------------------------------------- goroutines sharing a Dictionary
\* Each goroutine calls Contains, WordCount, AddWord, RemoveWord or
\* RebuildFST; a call is a sequence of steps, pc is the step a goroutine is
\* about to take:
\*   "rlock" (d.mu.RLock), "read" (d.fst.Get or len(d.words)), "runlock";
\*   "lock" (d.mu.Lock), "set" (the change of d.words), then the steps of
\*   rebuildFST: "close" (d.fst.Close, d.fst = nil), "create" (os.Create),
\*   "build" (the vellum builder), "open" (vellum.Open, d.fst = fst), "save"
\*   (saveTextFile), and "unlock".

ReadCalls == {"Contains", "WordCount"}

WriteCalls == {"AddWord", "RemoveWord", "RebuildFST"}

ConcWord == << "s", "s" >>

\* RLock goes through whatever the writer does.
CanRLock_unguarded == TRUE

\* sync.RWMutex: RLock is granted when no writer holds the lock, Lock when
\* nobody holds it.
CanRLock == mu.writer = "none"

CanLock == mu.writer = "none" /\ mu.readers = {}

\* The word set the call of goroutine t leaves in d.words.
WordsAfter(t) ==
    CASE thr[t].op = "AddWord"    -> words \cup {ToLower(thr[t].arg)}
      [] thr[t].op = "RemoveWord" -> words \ {ToLower(thr[t].arg)}
      [] OTHER                    -> words

Call(t, op, w) ==
    /\ proc = "up"
    /\ thr[t].pc = "idle"
    /\ thr' = [thr EXCEPT ![t] = [IdleThr EXCEPT
                   !.pc = IF op \in ReadCalls THEN "rlock" ELSE "lock",
                   !.op = op, !.arg = w]]
    /\ UNCHANGED << proc, lexicon, cacheOn, cache, ret, kept, config, mu,
                    settled >>

RLock(t) ==
    /\ proc = "up"
    /\ thr[t].pc = "rlock"
    /\ CanRLock
    /\ mu' = [mu EXCEPT !.readers = @ \cup {t}]
    /\ thr' = [thr EXCEPT ![t].pc = "read"]
    /\ UNCHANGED << proc, lexicon, cacheOn, cache, ret, kept, config, settled >>

\* The body of Contains and of WordCount; d.fst.Get on the nil index is a
\* nil dereference.
Read(t) ==
    /\ proc = "up"
    /\ thr[t].pc = "read"
    /\ IF thr[t].op = "Contains" /\ ~fst.open
       THEN /\ proc' = "panicked"
            /\ thr' = [thr EXCEPT ![t].pc = "panicked", ![t].saw = fst]
       ELSE /\ thr' = [thr EXCEPT ![t].pc = "runlock",
                                   ![t].saw = fst,
                                   ![t].found = Contains(fst, thr[t].arg),
                                   ![t].count = Cardinality(words)]
            /\ UNCHANGED proc
    /\ UNCHANGED << lexicon, cacheOn, cache, ret, kept, config, mu, settled >>

RUnlock(t) ==
    /\ proc = "up"
    /\ thr[t].pc = "runlock"
    /\ mu' = [mu EXCEPT !.readers = @ \ {t}]
    /\ thr' = [thr EXCEPT ![t] = IdleThr]
    /\ UNCHANGED << proc, lexicon, cacheOn, cache, ret, kept, config, settled >>

\* d.mu.Lock; o is what the file system is going to do to this rebuild.
Lock(t, o) ==
    /\ proc = "up"
    /\ thr[t].pc = "lock"
    /\ CanLock
    /\ mu' = [mu EXCEPT !.writer = t]
    /\ thr' = [thr EXCEPT ![t].pc = "set", ![t].io = o]
    /\ UNCHANGED << proc, lexicon, cacheOn, cache, ret, kept, config, settled >>

\* One step of the goroutine that holds the lock.
WriteStep(t) ==
    LET pc == thr[t].pc
        io == thr[t].io[1]
        fails(step) == io = step
        goto(next) == thr' = [thr EXCEPT ![t].pc = next]
        return == thr' = [thr EXCEPT ![t].pc = "unlock", ![t].err = TRUE]
    IN  /\ proc = "up"
        /\ pc \in {"set", "close", "create", "build", "open", "save"}
        /\ CASE pc = "set" ->
                   /\ words' = WordsAfter(t)
                   /\ goto("close")
                   /\ UNCHANGED << fst, txtFile, fstFile >>
             [] pc = "close" ->
                   /\ fst' = NilFST
                   /\ goto("create")
                   /\ UNCHANGED << words, txtFile, fstFile >>
             [] pc = "create" ->
                   IF fails("create")
                   THEN return /\ UNCHANGED lexicon
                   ELSE /\ fstFile' = CorruptFile
                        /\ goto("build")
                        /\ UNCHANGED << words, fst, txtFile >>
             [] pc = "build" ->
                   IF fails("build")
                   THEN return /\ UNCHANGED lexicon
                   ELSE /\ fstFile' = ValidFile(words)
                        /\ goto("open")
                        /\ UNCHANGED << words, fst, txtFile >>
             [] pc = "open" ->
                   IF fails("open")
                   THEN return /\ UNCHANGED lexicon
                   ELSE /\ fst' = OpenFST(fstFile.keys)
                        /\ goto("save")
                        /\ UNCHANGED << words, txtFile, fstFile >>
             [] pc = "save" ->
                   LET saved == saveTextFile(words, txtFile, io, thr[t].io[2])
                   IN  /\ txtFile' = saved.txtFile
                       /\ thr' = [thr EXCEPT ![t].pc = "unlock",
                                              ![t].err = saved.err]
                       /\ UNCHANGED << words, fst, fstFile >>
        /\ UNCHANGED << proc, cacheOn, cache, ret, kept, config, mu, settled >>

\* defer d.mu.Unlock()
Unlock(t) ==
    /\ proc = "up"
    /\ thr[t].pc = "unlock"
    /\ mu' = [mu EXCEPT !.writer = "none"]
    /\ settled' = [fst |-> fst, ok |-> ~thr[t].err]
    /\ thr' = [thr EXCEPT ![t] = IdleThr]
    /\ UNCHANGED << proc, lexicon, cacheOn, cache, ret, kept, config >>

InitConc ==
    /\ proc = "up"
    /\ words = { << "a", "a" >> }
    /\ fst = OpenFST(words)
    /\ txtFile = TextOf(FileText(SortStrings(words)))
    /\ fstFile = ValidFile(words)
    /\ cacheOn = FALSE
    /\ cache = << >>
    /\ ret = NoRet
    /\ kept = NoneKept
    /\ config = InitConfig
    /\ mu = FreeMu /\ thr = NoThreads
    /\ settled = [fst |-> fst, ok |-> TRUE]

NextConc ==
    \E t \in Threads :
        \/ \E op \in ReadCalls \cup WriteCalls : Call(t, op, ConcWord)
        \/ RLock(t)
        \/ Read(t)
        \/ RUnlock(t)
        \/ \E o \in Outcomes(WordsAfter(t)) : Lock(t, o)
        \/ WriteStep(t)
        \/ Unlock(t)

SpecConc == InitConc /\ [][NextConc]_vars

\* ------------------------------------------------ the cache at capacity
\* A Tokenizer that has split the numerals from CacheSize (or CacheSize - 1)
\* down to 1, one Split each, goes on splitting and clearing.

CacheInputs == { << "a", "a", "s", "s" >>, << "A", "a", "s", "s" >>,
                 << "s", "s" >>, Numeral(CacheSize), Numeral(CacheSize - 1),
                 Numeral(1) }

InitCache ==
    /\ proc = "up"
    /\ words = { << "a", "a" >>, << "s", "s" >> }
    /\ fst = OpenFST(words)
    /\ txtFile = TextOf(FileText(SortStrings(words)))
    /\ fstFile = ValidFile(words)
    /\ cacheOn = TRUE
    /\ cache \in { << NumeralRun(1, CacheSize - 1) >>,
                    << NumeralRun(1, CacheSize) >> }
    /\ ret = NoRet
    /\ kept = NoneKept
    /\ config = InitConfig
    /\ mu = FreeMu /\ thr = NoThreads /\ settled = NoneSettled

NextCache ==
  /\ UNCHANGED << config, conc >>
  /\
    \/ \E w \in CacheInputs : Split(w)
    \/ ClearCache

SpecCache == InitCache /\ [][NextCache]_vars

\* ------------------------------------------------ Tokenize over many texts
\* A Tokenizer of some configuration tokenizes one text, and then the same
\* text again, lowercased.

MaxRuns == 3

TokenizeWords == { << "A", "a", "s", "s" >>, << "a", "sz" >>, << "a", "s", "s" >>,
                   << "ae", "s" >> }

\* The texts of at most n of these words with a blank between them.
RECURSIVE TextsOf(_)
TextsOf(n) ==
    IF n = 0 THEN { << >> }
    ELSE LET shorter == TextsOf(n - 1)
         IN  shorter
                 \cup { (IF t = << >> THEN t ELSE t \o << " " >>) \o w :
                           t \in shorter, w \in TokenizeWords }

Texts ==
    TextsOf(MaxRuns)
        \cup { << "#", " " >> \o brand \o schutz \o konzept \o << "nl" >>,
               << " " >>, << "lq" >> \o beton \o << "dq", " ", "ash" >> }

TokenizeLexicons == { { << "a", "a" >>, << "s", "s" >> },
                      { << "a", "s" >>, << "a", "a" >>, brand, schutz, konzept } }

Configs ==
    [LowercaseOriginal : BOOLEAN,
     Normalizers : { AllSteps, {}, {"Lowercase", "ConvertEszett"} }]

InitTokenize ==
    /\ proc = "up"
    /\ words \in TokenizeLexicons
    /\ fst = OpenFST(words)
    /\ txtFile = TextOf(FileText(SortStrings(words)))
    /\ fstFile = ValidFile(words)
    /\ cacheOn \in BOOLEAN
    /\ cache = << >>
    /\ ret = NoRet
    /\ kept = NoneKept
    /\ config \in Configs
    /\ mu = FreeMu /\ thr = NoThreads /\ settled = NoneSettled

NextTokenize ==
    \/ /\ ret.op = "none"
       /\ \E t \in Texts : Tokenize(t)
    \/ /\ ret.op = "Tokenize"
       /\ Tokenize(ToLower(ret.arg))

SpecTokenize == InitTokenize /\ [][NextTokenize]_vars

\* ------------------------------------------------- loading many files
\* A program is started on one of many text files, with no FST file, a
\* broken one, the one built from the text or one built from other words,
\* and constructs a Dictionary or a Tokenizer, again and again.

MaxText == 4

LoadAlphabet == { "a", "s", "S", " ", "#", "nl" }

\* The strings of at most n runes of an alphabet.
RECURSIVE StringsOver(_, _)
StringsOver(alphabet, n) ==
    IF n = 0 THEN { << >> }
    ELSE LET shorter == StringsOver(alphabet, n - 1)
         IN  shorter \cup { Append(x, c) : x \in { y \in shorter : Len(y) = n - 1 },
                                             c \in alphabet }

LoadTexts == StringsOver(LoadAlphabet, MaxText) \cup InitTexts

StaleKeys == { << "s", "s" >> }

InitLoad ==
    /\ proc = "down"
    /\ words = {}
    /\ fst = NilFST
    /\ txtFile \in { TextOf(t) : t \in LoadTexts } \cup {NoText}
    /\ fstFile \in {AbsentFile, CorruptFile, ValidFile(StaleKeys),
                    ValidFile(loadTextFile(txtFile.text))}
    /\ cacheOn = FALSE
    /\ cache = << >>
    /\ ret = NoRet
    /\ kept = NoneKept
    /\ config = InitConfig
    /\ mu = FreeMu /\ thr = NoThreads /\ settled = NoneSettled

NextLoad ==
  /\ UNCHANGED << config, conc >>
  /\
    \/ IF txtFile.exists /\ fstFile.state /= "valid"
       THEN \E o \in Outcomes(Loadable) : NewDictionary(o[1], o[2])
       ELSE NewDictionary("ok", 0)
    \/ \E c \in BOOLEAN :
          IF txtFile.exists /\ fstFile.state /= "valid"
          THEN \E o \in Outcomes(Loadable) : NewTokenizer(c, o[1], o[2])
          ELSE NewTokenizer(c, "ok", 0)
    \/ Exit

SpecLoad == InitLoad /\ [][NextLoad]_vars

\* ------------------------------------------------ SplitWords over many texts
\* A caller hands SplitWords one of many strings.

WordsAlphabet == { "a", "0", "ae", " ", "#", "xFF" }

WordTexts == StringsOver(WordsAlphabet, MaxText)

CallSplitWords(text) ==
    /\ ret' = [NoRet EXCEPT !.op = "SplitWords", !.arg = text,
                            !.out = SplitWords(text)]
    /\ UNCHANGED << proc, lexicon, cacheOn, cache, kept, config, conc >>

InitWords ==
    /\ proc = "down"
    /\ words = {}
    /\ fst = NilFST
    /\ txtFile = NoText
    /\ fstFile = AbsentFile
    /\ cacheOn = FALSE
    /\ cache = << >>
    /\ ret = NoRet
    /\ kept = NoneKept
    /\ config = InitConfig
    /\ mu = FreeMu /\ thr = NoThreads /\ settled = NoneSettled

NextWords == ret.op = "none" /\ \E t \in WordTexts : CallSplitWords(t)

SpecWords == InitWords /\ [][NextWords]_vars

\* ------------------------------------------------------------ the claims

Fresh(word) == splitUncached(fst, ToLower(word))

DictMutations == {"Dictionary.AddWord", "Dictionary.RemoveWord"}

\* C1: once an AddWord or RemoveWord has succeeded, every Split a Tokenizer
\* with the cache serves equals the decomposition of the word computed
\* against the Dictionary as it is now.
C1_NoStaleSplit ==
    (proc = "up" /\ kept.op /= "none" /\ fst.open /\ ret.op = "Split")
        => ret.segs = Fresh(ret.arg)

\* C2: after a successful NewDictionary, AddWord or RemoveWord the index
\* holds exactly the words of the word set: Contains(w) is true exactly for
\* the words w of d.words.
C2_IndexReflectsWords ==
    (proc = "up" /\ ret.op \in DictMutations \cup {"NewDictionary"} /\ ~ret.err)
        => /\ fst.open
           /\ \A w \in LookupWords \cup words \cup fst.keys :
                 Contains(fst, w) <=> ToLower(w) \in words

\* C3: after a failed AddWord or RemoveWord the Dictionary stays usable: a
\* Contains or Split call returns, it does not crash.
C3_UsableAfterFailure ==
    ret.op \in {"Contains", "Split"} => proc = "up"

\* C4: Split returns at least one element, for every word (the empty one
\* too), every Dictionary, with the cache and without it.
C4_SplitNonEmpty ==
    (proc = "up" /\ ret.op = "Split") => Len(ret.segs) >= 1

C4_Witness ==
    /\ ret.op = "Split" /\ ret.arg = << >> /\ ret.hit
    /\ ret.segs = << << >> >>

\* C5: when Split returns more than one segment, each has at least 2 runes
\* and passes isValidWord against the Dictionary the result is returned under.
C5_SegmentsValidNow ==
    (proc = "up" /\ fst.open /\ ret.op = "Split" /\ Len(ret.segs) > 1)
        => \A i \in DOMAIN ret.segs :
              /\ Len(ret.segs[i]) >= 2
              /\ isValidWord(fst, ret.segs[i])

\* C6: once Dictionary.AddWord(x) has returned no error, every Contains of
\* x, in any letter case, returns true, and once Dictionary.RemoveWord(x) has
\* returned no error every Contains of x returns false, until the next
\* AddWord or RemoveWord of x.
C6_AddRemoveThenContains ==
    (ret.op = "Contains" /\ kept.op \in DictMutations
        /\ ToLower(ret.arg) = kept.word)
        => /\ proc = "up"
           /\ ret.found <=> kept.op = "Dictionary.AddWord"

\* C7: after a successful AddWord or RemoveWord, loading the text file that
\* was written yields the word set the Dictionary holds in memory.
C7_RoundTrip ==
    (proc = "up" /\ ret.op \in DictMutations /\ ~ret.err)
        => loadTextFile(txtFile.text) = words

\* C8: when the rebuild or the file write of an AddWord or RemoveWord fails,
\* the caller of the Dictionary method or of the Tokenizer method is handed
\* the error.
C8_FailureReported ==
    (ret.op \in WordSetCalls /\ ret.failed) => ret.err

C10_HitEqualsMiss ==
    [][ (ret'.op = "Split" /\ ret'.hit)
            => /\ ret.op = "Split"
               /\ ToLower(ret.arg) = ToLower(ret'.arg)
               /\ ret'.segs = ret.segs
               /\ ret'.segs = splitUncached(fst', ToLower(ret'.arg))
               /\ UNCHANGED lexicon ]_vars

C10_Witness ==
    /\ ret.op = "Split" /\ ret.hit
    /\ ret.segs = << brand, schutz, konzept >>

\* strings.Join(segments, ""): the text the segments cover.
RECURSIVE Concat(_)
Concat(segs) ==
    IF segs = << >> THEN << >> ELSE Head(segs) \o Concat(Tail(segs))

\* Every way to cut w into segments of at least 2 runes of which each but
\* the last passes the strict check (isWordInDict) and the last passes the
\* lenient check (isValidWord).
RECURSIVE Decompositions(_, _)
Decompositions(f, w) ==
    (IF Len(w) >= 2 /\ isValidWord(f, w) THEN { << w >> } ELSE {})
        \cup UNION { { << SubSeq(w, 1, n) >> \o d :
                          d \in Decompositions(f, SubSeq(w, n + 1, Len(w))) } :
                      n \in { m \in 2 .. Len(w) - 2 :
                                isWordInDict(f, SubSeq(w, 1, m)) } }

\* d takes the longest candidate at every position: no longer prefix of the
\* text from segment i on passes the strict check, nor does that whole text
\* pass the lenient check.
IsGreedy(f, d) ==
    \A i \in DOMAIN d :
        LET rem == Concat(SubSeq(d, i, Len(d)))
        IN  \A n \in Len(d[i]) + 1 .. Len(rem) :
                IF n = Len(rem) THEN ~isValidWord(f, rem)
                ELSE ~isWordInDict(f, SubSeq(rem, 1, n))

SplitReturned == proc = "up" /\ fst.open /\ ret.op = "Split"

\* C11 as claimed: whenever the word can be cut into two or more valid
\* segments, Split returns more than one segment.
C11_SplitsWheneverPossible ==
    (SplitReturned
        /\ \E d \in Decompositions(fst, ToLower(ret.arg)) : Len(d) >= 2)
        => Len(ret.segs) >= 2

\* C11, amended: whenever the word has a valid cut into two or more segments
\* that takes the longest candidate at every position, Split returns exactly
\* that cut.
C11_SplitsWhenGreedy ==
    SplitReturned
        => \A d \in Decompositions(fst, ToLower(ret.arg)) :
              (Len(d) >= 2 /\ IsGreedy(fst, d)) => ret.segs = d

C11_Witness ==
    /\ SplitReturned /\ ~ret.hit
    /\ words = { << "a", "a" >>, << "s", "s" >>, << "ae", "s" >> }
    /\ ret.arg = << "ae", "s", "a", "a" >>
    /\ ret.segs = << << "ae", "s" >>, << "a", "a" >> >>

\* C12: when Split returns two or more segments, they are a valid cut of the
\* lowercased word (strict for every segment but the last, lenient for the
\* last, which is the whole remainder) and each is the longest candidate at
\* its position.
C12_GreedyLongestMatch ==
    (SplitReturned /\ Len(ret.segs) >= 2)
        => /\ ret.segs \in Decompositions(fst, ToLower(ret.arg))
           /\ IsGreedy(fst, ret.segs)

C12_Witness ==
    /\ SplitReturned /\ ~ret.hit
    /\ ret.arg = brand \o schutz \o konzept
    /\ ret.segs = << brand, schutz, konzept >>

\* C13: when no cut of two or more segments takes the longest candidate at
\* every position (the whole word validates, or some position has no valid
\* prefix), Split returns the lowercased word as its only segment.
C13_NoPartialResult ==
    (SplitReturned
        /\ ~\E d \in Decompositions(fst, ToLower(ret.arg)) :
               Len(d) >= 2 /\ IsGreedy(fst, d))
        => ret.segs = << ToLower(ret.arg) >>

C13_Witness ==
    /\ SplitReturned /\ ~ret.hit
    /\ ret.arg = brand \o schutz \o beton
    /\ GreedyLoop(fst, << >>, ret.arg) = [found |-> FALSE,
                                           segments |-> << brand, schutz >>]
    /\ ret.segs = << ret.arg >>

\* C14: the segments Split returns are pieces of the lowercased input in
\* order: joined they give the lowercased input back, umlauts and sharp s
\* included.
C14_SegmentsCoverInput ==
    (proc = "up" /\ ret.op = "Split") => Concat(ret.segs) = ToLower(ret.arg)

C14_Witness ==
    /\ SplitReturned
    /\ words = { normalizeUmlauts(waerme), normalizeUmlauts(daemmung) }
    /\ ret.arg = waerme \o daemmung
    /\ ret.segs = << waerme, daemmung >>

\* The word runs of a text, in order.
WordRuns(text) == SelectSeq(SplitWords(text), LAMBDA r : r.Type = "TokenWord")

\* What Tokenize emits for one word run under an unchanged Dictionary: the
\* lowercase original if enabled, then the normalized segments.
NormalizedSegments(run) ==
    LET segs == splitUncached(fst, ToLower(run))
    IN  [i \in DOMAIN segs |->
            Normalize(buildNormalizer(config.Normalizers), segs[i])]

RunEmissions(run) ==
    (IF config.LowercaseOriginal THEN << ToLower(run) >> ELSE << >>)
        \o NormalizedSegments(run)

RECURSIVE EmissionStream(_)
EmissionStream(runs) ==
    IF runs = << >> THEN << >>
    ELSE RunEmissions(Head(runs).Text) \o EmissionStream(Tail(runs))

\* The stream from position i on, less every value that occurs before.
RECURSIVE KeepFirst(_, _)
KeepFirst(stream, i) ==
    IF i > Len(stream) THEN << >>
    ELSE (IF \E j \in 1 .. i - 1 : stream[j] = stream[i] THEN << >>
          ELSE << stream[i] >>) \o KeepFirst(stream, i + 1)

TokenizeReturned == proc = "up" /\ ret.op = "Tokenize"

\* C15: Tokenize returns no string twice, and returns the emission stream
\* (for each word run in order the lowercase original if enabled, then the
\* normalized segments) with the first occurrence of every value kept in
\* order; the other runs add nothing.
C15_Deduplicated ==
    TokenizeReturned
        => /\ \A i, j \in DOMAIN ret.out : ret.out[i] = ret.out[j] => i = j
           /\ ret.out = KeepFirst(EmissionStream(WordRuns(ret.arg)), 1)

C15_Witness ==
    /\ TokenizeReturned /\ config = InitConfig
    /\ ret.arg = << "A", "a", "s", "s", " ", "a", "sz", " ", "a", "s", "s" >>
    /\ ret.out = << << "a", "a", "s", "s" >>, << "a", "a" >>, << "s", "s" >>,
                    << "a", "sz" >>, << "a", "s", "s" >> >>

\* C16: with LowercaseOriginal every word run's lowercase form is in the
\* output, before every normalized segment of that run that no earlier run
\* emitted; without it every element of the output is the normalized form
\* of a segment of some word run.
C16_OriginalOptional ==
    TokenizeReturned
        => LET runs == WordRuns(ret.arg)
               InOut(v) == \E i \in DOMAIN ret.out : ret.out[i] = v
               Pos(v) == CHOOSE i \in DOMAIN ret.out : ret.out[i] = v
               Earlier(k, v) ==
                   \E j \in 1 .. k - 1 :
                       \E i \in DOMAIN RunEmissions(runs[j].Text) :
                           RunEmissions(runs[j].Text)[i] = v
           IN  IF config.LowercaseOriginal
               THEN \A k \in DOMAIN runs :
                        LET original == ToLower(runs[k].Text)
                            ns == NormalizedSegments(runs[k].Text)
                        IN  /\ InOut(original)
                            /\ \A i \in DOMAIN ns :
                                  /\ InOut(ns[i])
                                  /\ \/ Earlier(k, ns[i])
                                     \/ Pos(original) <= Pos(ns[i])
               ELSE \A i \in DOMAIN ret.out :
                        \E k \in DOMAIN runs :
                            \E j \in DOMAIN NormalizedSegments(runs[k].Text) :
                                ret.out[i] = NormalizedSegments(runs[k].Text)[j]

C16_Witness ==
    /\ TokenizeReturned /\ ~config.LowercaseOriginal
    /\ config.Normalizers = AllSteps
    /\ ret.arg = << "ae", "s", " ", "A", "a", "s", "s" >>
    /\ ret.out = << << "a", "s" >>, << "a", "a" >>, << "s", "s" >> >>

\* The key of the n-th entry of the list.
RECURSIVE CacheKeyAt(_, _)
CacheKeyAt(entries, n) ==
    LET e == Head(entries)
    IN  IF n <= 1 + e.more
        THEN (IF e.more = 0 THEN e.key
              ELSE Numeral(NumeralValue(e.key) + n - 1))
        ELSE CacheKeyAt(Tail(entries), n - 1 - e.more)

\* The list written with as few items as can be: two neighbouring items of
\* consecutive numerals, each cached as itself, are one run.
RECURSIVE CacheCanon(_)
CacheCanon(entries) ==
    IF Len(entries) < 2 THEN entries
    ELSE LET e == entries[1]
             f == entries[2]
             isRun(x) == IsNumeral(x.key) /\ x.val = << x.key >>
         IN  IF /\ isRun(e) /\ isRun(f)
                /\ NumeralValue(f.key) = NumeralValue(e.key) + e.more + 1
             THEN CacheCanon(<< [e EXCEPT !.more = e.more + 1 + f.more] >>
                                 \o SubSeq(entries, 3, Len(entries)))
             ELSE << e >> \o CacheCanon(Tail(entries))

\* C17: the cache never holds more than CacheSize entries; a Split that
\* inserts into the full cache puts the new entry in front of the others,
\* which keep their order, and drops exactly the entry at the back, the
\* least recently used one, never the entry the call before read or wrote;
\* a Split served from the cache moves its entry to the front and keeps all
\* the others in their order.
C17_BoundedLRU ==
    [][ /\ CacheLen(cache') <= CacheSize
        /\ (proc' = "up" /\ ret'.op = "Split" /\ ~ret'.hit /\ cacheOn
               /\ CacheLen(cache) = CacheSize)
              => /\ CacheLen(cache') = CacheSize
                 /\ CacheKeyAt(cache', 1) = ToLower(ret'.arg)
                 /\ CacheCanon(Tail(cache'))
                       = CacheCanon(CacheTake(cache, CacheSize - 1))
                 /\ ~CacheHas(cache', CacheKeyAt(cache, CacheSize))
                 /\ ret.op = "Split" => CacheHas(cache', ToLower(ret.arg))
        /\ (ret'.op = "Split" /\ ret'.hit)
              => /\ CacheLen(cache') = CacheLen(cache)
                 /\ CacheKeyAt(cache', 1) = ToLower(ret'.arg)
                 /\ CacheCanon(Tail(cache'))
                       = CacheCanon(CacheWithout(cache, ToLower(ret'.arg)))
      ]_vars

C17_Witness ==
    /\ ret.op = "Split" /\ ~ret.hit
    /\ ret.arg = << "a", "a", "s", "s" >>
    /\ CacheLen(cache) = CacheSize
    /\ CacheKeyAt(cache, 2) = Numeral(CacheSize)
    /\ CacheKeyAt(cache, CacheSize) = Numeral(CacheSize - 2)

\* C18: with the cache, and below its capacity, a Split that returns for a
\* word whose lowercase form is not cached raises CacheSize() by one; a
\* Split of a word whose lowercase form is cached leaves it as it is; and
\* ClearCache sets it to 0.
C18_CacheAccounting ==
    [][ (cacheOn /\ proc' = "up")
          => LET before == CacheSizeOf(cacheOn, cache)
                 after == CacheSizeOf(cacheOn', cache')
                 cached == CacheHas(cache, ToLower(ret'.arg))
             IN  /\ (ret'.op = "Split" /\ ~cached /\ before < CacheSize)
                       => after = before + 1
                 /\ (ret'.op = "Split" /\ cached) => after = before
                 /\ ret'.op = "ClearCache" => after = 0
      ]_vars

C18_Witness ==
    /\ cacheOn /\ proc = "up"
    /\ ret.op = "Split" /\ ret.hit
    /\ ret.arg = << "A", "a", "s", "s" >>
    /\ CacheSizeOf(cacheOn, cache) = 2

\* C19: a splitter without the cache reports CacheEnabled() false and
\* CacheSize() 0 and never serves a stored result; and under an unchanged
\* Dictionary every Split, of the splitter with the cache (stored results
\* included) as of the one without, returns the decomposition computed from
\* the Dictionary, so the two return the same.
C19_CacheChangesNothing ==
    (proc = "up" /\ ret.op = "Split")
        => /\ ret.segs = splitUncached(OpenFST(words), ToLower(ret.arg))
           /\ ~cacheOn => /\ ~CacheEnabled
                           /\ CacheSizeOf(cacheOn, cache) = 0
                           /\ ~ret.hit

C19_Witness ==
    /\ proc = "up" /\ ~cacheOn
    /\ ret.op = "Split" /\ ret.arg = ToLower(ret.arg)
    /\ ret.segs = << waerme, daemmung >>

\* Goroutine t is between Lock and Unlock, or between RLock and RUnlock.
InWrite(t) ==
    thr[t].pc \in {"set", "close", "create", "build", "open", "save", "unlock"}

InRead(t) == thr[t].pc \in {"read", "runlock"}

\* C20: while a goroutine is between the Lock and the Unlock of AddWord,
\* RemoveWord or RebuildFST no other goroutine is inside a mutation or
\* between the RLock and RUnlock of Contains or WordCount; so the index a
\* Contains has read is the one the last Unlock left (or the constructed
\* one), never one being rebuilt, and after a successful mutation it is
\* open and holds the word set, which is also what WordCount has counted.
C20_ReadersWriterExclusion ==
    \A t \in Threads :
        /\ InWrite(t)
              => \A u \in Threads \ {t} : ~InWrite(u) /\ ~InRead(u)
        /\ (thr[t].pc \in {"runlock", "panicked"} /\ thr[t].op = "Contains")
              => /\ thr[t].saw = settled.fst
                 /\ settled.ok => /\ thr[t].pc = "runlock"
                                   /\ thr[t].saw = OpenFST(words)
        /\ (thr[t].pc = "runlock" /\ thr[t].op = "WordCount")
              => thr[t].count = Cardinality(words)

\* Two Contains calls overlap while an AddWord that is going to succeed
\* waits for the lock, after an earlier mutation has succeeded.
C20_Witness ==
    \E t, u, v \in Threads :
        /\ t /= u
        /\ thr[t].op = "Contains" /\ thr[t].pc = "runlock"
        /\ thr[u].op = "Contains" /\ thr[u].pc = "runlock"
        /\ thr[v].op = "AddWord" /\ thr[v].pc = "lock"
        /\ thr[t].found /\ words = { << "a", "a" >>, << "s", "s" >> }

Constructors == {"NewDictionary", "NewTokenizer"}

\* C21: a constructor call on a missing text file fails; when a constructor
\* fails (the text file is missing, or the index had to be rebuilt and the
\* rebuild or the write of the text file failed) it returns the error and no
\* Dictionary or Tokenizer; when it succeeds the Dictionary handed out has
\* its word set and an open index, and a rebuild it needed went through.
C21_LoadFailsFast ==
    [][ ret'.op \in Constructors
          => /\ ~txtFile.exists => ret'.failed
             /\ ret'.failed => /\ ret'.err
                               /\ proc' = "down"
                               /\ words' = {} /\ fst' = NilFST
             /\ ~ret'.failed
                   => /\ ~ret'.err
                      /\ proc' = "up"
                      /\ fst'.open
                      /\ words' = loadTextFile(txtFile.text)
                      /\ fstFile.state /= "valid"
                            => /\ fst' = OpenFST(words')
                               /\ fstFile' = ValidFile(words')
      ]_vars

\* NewTokenizer failed in the builder of the index: nothing is handed out.
C21_Witness ==
    /\ ret.op = "NewTokenizer" /\ ret.err
    /\ proc = "down" /\ words = {} /\ ~fst.open
    /\ txtFile.exists /\ loadTextFile(txtFile.text) /= {}
    /\ fstFile = CorruptFile

\* The lines of a text: the pieces between its line feeds.
LinesOf(text) ==
    { SubSeq(text, i, j) :
        << i, j >> \in { p \in (1 .. Len(text) + 1) \X (0 .. Len(text)) :
            /\ p[1] <= p[2] + 1
            /\ \A n \in p[1] .. p[2] : text[n] /= "nl"
            /\ p[1] = 1 \/ text[p[1] - 1] = "nl"
            /\ p[2] = Len(text) \/ text[p[2] + 1] = "nl" } }

IsBlank(line) == \A n \in DOMAIN line : line[n] = " "

\* A line that is not blank, less the blanks around it.
Trimmed(line) ==
    LET first == CHOOSE a \in DOMAIN line :
                     line[a] /= " " /\ \A b \in 1 .. a - 1 : line[b] = " "
        last == CHOOSE a \in DOMAIN line :
                    line[a] /= " " /\ \A b \in a + 1 .. Len(line) : line[b] = " "
    IN  SubSeq(line, first, last)

\* The words a text file stands for: its lines that are not blank and, the
\* blanks around them apart, do not begin with "#", trimmed and lowercased.
ParsedWords(text) ==
    { ToLower(Trimmed(line)) :
        line \in { l \in LinesOf(text) : ~IsBlank(l) /\ Trimmed(l)[1] /= "#" } }

\* C24: the word set of a Dictionary that was constructed is the set of the
\* lowercased, trimmed lines of the text file as it was, blank lines and
\* lines beginning with "#" left out; so no word is empty, begins with "#",
\* has a blank at either end or an uppercase letter, and lines that differ
\* in case or surrounding blanks only are one word.
C24_LoadParsing ==
    [][ (ret'.op \in Constructors /\ ~ret'.err)
          => /\ words' = ParsedWords(txtFile.text)
             /\ \A w \in words' :
                   /\ w /= << >>
                   /\ w[1] \notin {"#", " "} /\ w[Len(w)] /= " "
                   /\ ToLower(w) = w
      ]_vars

\* The file S, s is loaded as the one word s (an FST file was there, so the
\* text file is as it was).
C24_Witness ==
    /\ proc = "up" /\ ret.op = "NewDictionary" /\ ~ret.err
    /\ txtFile.text = << "S", "nl", "s" >>
    /\ words = { << "s" >> }

\* The text file holds exactly the words ws, one on each line in byte order,
\* each line ended by a line feed.
HoldsSorted(txt, ws) ==
    LET lines == ScanLines(txt.text, << >>)
    IN  /\ txt.exists
        /\ txt.text = FileText(lines)
        /\ { lines[i] : i \in DOMAIN lines } = ws
        /\ \A i, j \in DOMAIN lines : i < j => Less(lines[i], lines[j])
        /\ \A i \in DOMAIN lines :
              lines[i] /= << >> /\ lines[i][1] /= "#"

\* C27 as claimed: a constructor that finds a valid FST file leaves the text
\* file as it is, and one that finds none, or a broken one, leaves the text
\* file holding the sorted word list, with no comment line and no blank line.
C27_LoadRewritesSource ==
    [][ (ret'.op \in Constructors /\ txtFile.exists)
          => IF fstFile.state = "valid" THEN txtFile' = txtFile
             ELSE HoldsSorted(txtFile', ParsedWords(txtFile.text))
      ]_vars

\* C27, amended: a constructor that finds a valid FST file leaves the text
\* file as it is; one that finds none, or a broken one, and returns no error
\* leaves the text file holding the sorted word list, with no comment line
\* and no blank line; one that fails leaves the text file as it was (the
\* rebuild of the index failed) or holding the first words of the sorted
\* list only (a write into the text file failed).
C27_LoadRewritesOnSuccess ==
    [][ (ret'.op \in Constructors /\ txtFile.exists)
          => LET ws == ParsedWords(txtFile.text)
                 sortedWords == SortStrings(ws)
             IN  IF fstFile.state = "valid" THEN txtFile' = txtFile /\ ~ret'.err
                 ELSE IF ~ret'.err THEN HoldsSorted(txtFile', ws)
                 ELSE \/ txtFile' = txtFile
                      \/ \E n \in 0 .. Len(sortedWords) - 1 :
                            txtFile' = TextOf(FileText(SubSeq(sortedWords, 1, n)))
      ]_vars

\* The file with a comment line, a blank line, an uppercase word and an
\* indented word has been rewritten as aa, ss.
C27_Witness ==
    /\ proc = "up" /\ ret.op = "NewDictionary" /\ ~ret.err
    /\ txtFile.text = << "a", "a", "nl", "s", "s", "nl" >>
    /\ fstFile = ValidFile(words)
    /\ words = { << "a", "a" >>, << "s", "s" >> }

\* The texts of the tokens, in order.
TokenTexts(tokens) == [i \in DOMAIN tokens |-> tokens[i].Text]

\* The token list covers a string of n code points: it starts at 0, each
\* token begins where the one before ends and is as long as its offsets say,
\* the last ends at n; every token is a non-empty run of runes of its type,
\* and neighbours differ in type.
CoversOffsets(tokens, n) ==
    /\ n = 0 <=> tokens = << >>
    /\ tokens /= << >> => tokens[1].Start = 0 /\ tokens[Len(tokens)].End = n
    /\ \A i \in DOMAIN tokens :
          /\ tokens[i].Text /= << >>
          /\ Len(tokens[i].Text) = tokens[i].End - tokens[i].Start
          /\ tokens[i].Type \in {"TokenWord", "TokenSeparator"}
          /\ \A j \in DOMAIN tokens[i].Text :
                getTokenType(tokens[i].Text[j]) = tokens[i].Type
          /\ i < Len(tokens)
                => /\ tokens[i].End = tokens[i + 1].Start
                   /\ tokens[i].Type /= tokens[i + 1].Type

\* C22: the tokens of SplitWords cover the input exactly once: their texts
\* joined are the input, their offsets run from 0 to the number of code
\* points without gap or overlap, every token is a non-empty run of word
\* runes or of other runes, neighbours differ in type, and the empty input
\* has no token.
C22_CoversInput ==
    ret.op = "SplitWords"
        => /\ Concat(TokenTexts(ret.out)) = ret.arg
           /\ CoversOffsets(ret.out, Len(ret.arg))

\* What holds of C22 for every input: the token texts joined are the input
\* with U+FFFD in the place of every byte that is not UTF-8, and the offsets
\* cover the code points.
C22_CoversDecodedInput ==
    ret.op = "SplitWords"
        => /\ Concat(TokenTexts(ret.out)) = Runes(ret.arg)
           /\ CoversOffsets(ret.out, Len(ret.arg))
           /\ Runes(ret.arg) = ret.arg
                 => Concat(TokenTexts(ret.out)) = ret.arg

\* C23: when Dictionary.AddWord(x) or Dictionary.RemoveWord(x) fails, the
\* error is returned and the word set is the changed one: lowercase x is in
\* it after AddWord and out of it after RemoveWord, nothing else differs,
\* WordCount counts the changed set, and a rebuild that goes through now
\* (as every RebuildFST that succeeds) puts the changed set into the index,
\* the FST file and the text file.
C23_NoRollback ==
    [][ /\ (ret'.op \in DictMutations /\ ret'.failed)
             => LET x == ToLower(ret'.arg)
                    changed == IF ret'.op = "Dictionary.AddWord"
                               THEN words \cup {x} ELSE words \ {x}
                    again == rebuildFST(words', fstFile', txtFile', "ok", 0)
                IN  /\ ret'.err
                    /\ words' = changed
                    /\ (x \in words') <=> (ret'.op = "Dictionary.AddWord")
                    /\ WordCount(words') = Cardinality(changed)
                    /\ again.fst = OpenFST(changed)
                    /\ again.fstFile = ValidFile(changed)
                    /\ again.txtFile = TextOf(FileText(SortStrings(changed)))
        /\ (ret'.op = "RebuildFST" /\ ~ret'.failed)
             => /\ words' = words
                /\ fst' = OpenFST(words)
                /\ fstFile' = ValidFile(words)
                /\ txtFile' = TextOf(FileText(SortStrings(words)))
      ]_vars

\* RemoveWord("Ss") failed at os.Create of the FST file: ss is gone from the
\* word set while the FST file still holds it.
C23_Witness ==
    /\ proc = "up" /\ ret.op = "Dictionary.RemoveWord" /\ ret.err
    /\ ret.arg = << "S", "s" >>
    /\ << "s", "s" >> \notin words
    /\ << "s", "s" >> \in fstFile.keys
    /\ WordCount(words) = 1

\* C28: with the Lexicon unchanged, every piece of the word that passes the
\* strict check passes the lenient check, and whenever greedySplit returns
\* two or more segments, allSegmentsValid accepts them and splitUncached
\* (hence Split) returns exactly those segments.
C28_RevalidationAccepts ==
    SplitReturned
        => LET w == ToLower(ret.arg)
               segments == greedySplit(fst, w)
           IN  /\ \A i \in 1 .. Len(w) : \A j \in i .. Len(w) :
                     isWordInDict(fst, SubSeq(w, i, j))
                         => isValidWord(fst, SubSeq(w, i, j))
               /\ Len(segments) >= 2
                     => /\ allSegmentsValid(fst, segments)
                        /\ splitUncached(fst, w) = segments
                        /\ ret.segs = segments

\* aasss over {aa, ss}: the last segment sss passes the lenient check only.
C28_Witness ==
    /\ SplitReturned /\ ~ret.hit
    /\ ret.segs = << << "a", "a" >>, << "s", "s", "s" >> >>
    /\ ~isWordInDict(fst, << "s", "s", "s" >>)

\* ------------------------------------- the lenient check over many words
\* A Tokenizer constructed on one of the dictionaries below splits one word
\* whose tails end with the suffixes "e", "s", "se", "es" and "sze".

LenientSigma == { "a", "s", "e", "ae" }

LenientInputs ==
    StringsOver(LenientSigma, MaxLen)
        \cup { << "a", "a", "a", "s", "s", "e" >>,
               << "a", "a", "a", "ae", "s", "sz", "e" >> }

LenientLexicons ==
    { { << "a", "a" >>, << "a", "s", "s" >> }, { << "a", "s", "s" >> },
      { << "a", "a" >>, << "s", "s" >> }, { << "a", "a" >>, << "a", "s" >> },
      { << "a", "a" >>, << "a", "ae" >>, << "ae", "s" >> },
      { << "a", "a" >>, << "a", "a", "s" >> } }

InitLenient ==
    /\ proc = "up"
    /\ words \in LenientLexicons
    /\ fst = OpenFST(words)
    /\ txtFile = TextOf(FileText(SortStrings(words)))
    /\ fstFile = ValidFile(words)
    /\ cacheOn \in BOOLEAN
    /\ cache = << >>
    /\ ret = NoRet
    /\ kept = NoneKept
    /\ config = InitConfig
    /\ mu = FreeMu /\ thr = NoThreads /\ settled = NoneSettled

NextLenient ==
    /\ UNCHANGED << config, conc >>
    /\ ret.op = "none"
    /\ \E w \in LenientInputs : Split(w)

SpecLenient == InitLenient /\ [][NextLenient]_vars

\* The suffix list in other orders: backwards, and with its halves swapped.
Reversed(s) == [i \in DOMAIN s |-> s[Len(s) + 1 - i]]

Rotated(s, n) == SubSeq(s, n + 1, Len(s)) \o SubSeq(s, 1, n)

SuffixOrders ==
    { germanSuffixes, Reversed(germanSuffixes),
      Rotated(germanSuffixes, Len(germanSuffixes) \div 2) }

\* p or its folded form is in the index, or some suffix of the list ends p
\* and leaves a stem of two or more runes that is in the index, as it is or
\* folded.
SomeSuffixValidates(f, p) ==
    \/ Contains(f, p)
    \/ Contains(f, normalizeUmlauts(p))
    \/ \E n \in DOMAIN germanSuffixes :
          LET stem == TrimSuffix(p, germanSuffixes[n])
          IN  /\ HasSuffix(p, germanSuffixes[n])
              /\ Len(stem) >= 2
              /\ Contains(f, stem) \/ Contains(f, normalizeUmlauts(stem))

\* C29: for every piece p of a word that Split was given (the strings the
\* lenient check is called on), isValidWord(p) is true exactly when p or its
\* folded form is in the Lexicon or some suffix of the list leaves a stem of
\* two or more code points that is, and trying the suffixes in another order
\* gives the same answer; Split returns what these answers determine.
C29_SuffixOrderIrrelevant ==
    SplitReturned
        => LET w == ToLower(ret.arg)
           IN  /\ \A i \in 1 .. Len(w) : \A j \in i .. Len(w) :
                     \E p \in { SubSeq(w, i, j) } :
                     \E v \in { SomeSuffixValidates(fst, p) } :
                         \A order \in SuffixOrders :
                             isValidWordOver(order, fst, p) <=> v
               /\ ret.segs = splitUncached(fst, w)

\* aaasse over {aa, ass}: asse ends with "se", whose stem "as" misses, and
\* then with "e", whose stem "ass" is found.
C29_Witness ==
    /\ SplitReturned /\ ~ret.hit
    /\ ret.segs = << << "a", "a" >>, << "a", "s", "s", "e" >> >>
    /\ HasSuffix(ret.segs[2], << "s", "e" >>)
    /\ ~Contains(fst, TrimSuffix(ret.segs[2], << "s", "e" >>))
    /\ Contains(fst, TrimSuffix(ret.segs[2], << "e" >>))

\* ------------------------------------------------ Split, step by step
\* A goroutine inside Split; pc is the step it is about to take:
\*   "get" (c.cache.Get), "scan" (one candidate prefix of greedySplit),
\*   "check" (allSegmentsValid and the test for two segments), "add"
\*   (c.cache.Add), "ret" (the call has returned thr[t].result).
\* Every Dictionary.Contains takes and releases d.mu on its own, so a whole
\* AddWord or RemoveWord can run between any two steps.

\* The Contains calls isWordInDict makes.
LookupsStrict(f, word) ==
    LET lower == ToLower(word)
    IN  IF Contains(f, lower) \/ normalizeUmlauts(lower) = lower THEN 1 ELSE 2

\* The Contains calls isValidWord makes: those of the two direct lookups, and
\* for every suffix tried up to the one that returns true, one for the stem
\* and one for the folded stem.
LookupsLenient(f, word) ==
    LET lower == ToLower(word)
        S == germanSuffixes
        last == IF SuffixLoop(S, f, lower)
                THEN CHOOSE i \in DOMAIN S :
                        /\ StemFound(S, f, lower, i)
                        /\ \A j \in 1 .. i - 1 : ~StemFound(S, f, lower, j)
                ELSE Len(S)
        tried == { i \in 1 .. last :
                     /\ HasSuffix(lower, S[i])
                     /\ Len(TrimSuffix(lower, S[i])) >= 2 }
    IN  IF isWordInDict(f, lower) THEN LookupsStrict(f, lower)
        ELSE LookupsStrict(f, lower) + 2 * Cardinality(tried)
                - (IF /\ SuffixLoop(S, f, lower)
                      /\ Contains(f, TrimSuffix(lower, S[last]))
                   THEN 1 ELSE 0)

\* The Contains calls allSegmentsValid makes from the i-th segment on.
RECURSIVE LookupsValid(_, _, _)
LookupsValid(f, segments, i) ==
    IF i > Len(segments) \/ Len(segments[i]) < 2 THEN 0
    ELSE LookupsLenient(f, segments[i])
            + (IF isValidWord(f, segments[i])
               THEN LookupsValid(f, segments, i + 1) ELSE 0)

Splitters == { "g1", "g2" }

InSplit(t) == thr[t].op = "Split" /\ thr[t].pc \notin { "idle", "ret" }

\* A mutation of the Lexicon and the ClearCache after it have both returned.
Invalidated == kept.op /= "none" /\ ret.op = "ClearCache"

\* Split is called: lower := strings.ToLower(word).
SplitCall(t, word) ==
    /\ proc = "up"
    /\ thr[t].pc \in { "idle", "ret" }
    /\ thr' = [thr EXCEPT ![t] = [IdleThr EXCEPT
                   !.pc = IF cacheOn THEN "get" ELSE "scan",
                   !.op = "Split", !.arg = word, !.word = ToLower(word),
                   !.remaining = ToLower(word),
                   !.length = Len(word),
                   !.iters = IF ~cacheOn /\ Len(word) > 0 THEN 1 ELSE 0,
                   !.late = Invalidated]]
    /\ UNCHANGED << proc, lexicon, cacheOn, cache, ret, kept, config, mu,
                    settled >>

\* c.cache.Get(lower)
SplitGet(t) ==
    /\ proc = "up"
    /\ thr[t].op = "Split" /\ thr[t].pc = "get"
    /\ IF CacheHas(cache, thr[t].word)
       THEN /\ thr' = [thr EXCEPT ![t].pc = "ret", ![t].hit = TRUE,
                          ![t].result = CacheGetVal(cache, thr[t].word)]
            /\ cache' = CacheTouch(cache, thr[t].word)
       ELSE /\ thr' = [thr EXCEPT ![t].pc = "scan",
                          ![t].iters = IF Len(thr[t].word) > 0 THEN 1 ELSE 0]
            /\ UNCHANGED cache
    /\ UNCHANGED << proc, lexicon, cacheOn, ret, kept, config, mu, settled >>

\* The scan that drops the first rune of the remaining text when no prefix
\* validates, and goes on.
ScanStep_skipsRune(t) ==
    \E g \in { thr[t] } :
    \E prefix \in { SubSeq(g.remaining, 1, g.length) } :
    \E rest \in { SubSeq(g.remaining, g.length + 1, Len(g.remaining)) } :
        /\ proc = "up"
        /\ g.op = "Split" /\ g.pc = "scan"
        /\ IF Len(g.remaining) = 0
           THEN thr' = [thr EXCEPT ![t].pc = "check"] /\ UNCHANGED proc
           ELSE IF g.length < 2
           THEN /\ thr' = [thr EXCEPT ![t].remaining = Tail(g.remaining),
                                       ![t].length = Len(g.remaining) - 1,
                                       ![t].iters = @ + (IF Len(g.remaining) > 1
                                                         THEN 1 ELSE 0)]
                /\ UNCHANGED proc
           ELSE IF ~fst.open
           THEN /\ thr' = [thr EXCEPT ![t].pc = "panicked"]
                /\ proc' = "panicked"
           ELSE \E isValid \in { IF Len(rest) = 0
                                  THEN isValidWord(fst, prefix)
                                  ELSE isWordInDict(fst, prefix) } :
                \E n \in { IF Len(rest) = 0
                            THEN LookupsLenient(fst, prefix)
                            ELSE LookupsStrict(fst, prefix) } :
                /\ thr' = [thr EXCEPT
                      ![t].lookups = @ + n,
                      ![t].segments = IF isValid THEN Append(@, prefix) ELSE @,
                      ![t].remaining = IF isValid THEN rest ELSE @,
                      ![t].length = IF isValid THEN Len(rest) ELSE @ - 1,
                      ![t].iters = IF isValid /\ Len(rest) > 0
                                   THEN @ + 1 ELSE @]
                /\ UNCHANGED proc
        /\ UNCHANGED << lexicon, cacheOn, cache, ret, kept, config, mu,
                        settled >>

\* One step of greedySplit. With nothing remaining the scan is complete; with
\* no candidate length left (length < 2) the iteration has found nothing and
\* greedySplit returns the word alone; otherwise the prefix of the current
\* length is validated (lenient when nothing follows it, strict otherwise):
\* when valid it becomes a segment and the next iteration begins on the rest,
\* when not the next shorter prefix is the candidate.
ScanStep(t) ==
    \E g \in { thr[t] } :
    \E prefix \in { SubSeq(g.remaining, 1, g.length) } :
    \E rest \in { SubSeq(g.remaining, g.length + 1, Len(g.remaining)) } :
        /\ proc = "up"
        /\ g.op = "Split" /\ g.pc = "scan"
        /\ IF Len(g.remaining) = 0
           THEN thr' = [thr EXCEPT ![t].pc = "check"] /\ UNCHANGED proc
           ELSE IF g.length < 2
           THEN /\ thr' = [thr EXCEPT ![t].pc = "check",
                                       ![t].segments = << g.word >>]
                /\ UNCHANGED proc
           ELSE IF ~fst.open
           THEN /\ thr' = [thr EXCEPT ![t].pc = "panicked"]
                /\ proc' = "panicked"
           ELSE \E isValid \in { IF Len(rest) = 0
                                  THEN isValidWord(fst, prefix)
                                  ELSE isWordInDict(fst, prefix) } :
                \E n \in { IF Len(rest) = 0
                            THEN LookupsLenient(fst, prefix)
                            ELSE LookupsStrict(fst, prefix) } :
                /\ thr' = [thr EXCEPT
                      ![t].lookups = @ + n,
                      ![t].segments = IF isValid THEN Append(@, prefix) ELSE @,
                      ![t].remaining = IF isValid THEN rest ELSE @,
                      ![t].length = IF isValid THEN Len(rest) ELSE @ - 1,
                      ![t].iters = IF isValid /\ Len(rest) > 0
                                   THEN @ + 1 ELSE @]
                /\ UNCHANGED proc
        /\ UNCHANGED << lexicon, cacheOn, cache, ret, kept, config, mu,
                        settled >>

\* The rest of splitUncached: allSegmentsValid(segments) is called first,
\* then the number of segments is tested.
CheckStep(t) ==
    \E g \in { thr[t] } :
        /\ proc = "up"
        /\ g.op = "Split" /\ g.pc = "check"
        /\ IF Len(g.segments) > 0 /\ Len(g.segments[1]) >= 2 /\ ~fst.open
           THEN /\ thr' = [thr EXCEPT ![t].pc = "panicked"]
                /\ proc' = "panicked"
           ELSE \E valid \in { allSegmentsValid(fst, g.segments) } :
                \E n \in { LookupsValid(fst, g.segments, 1) } :
                /\ thr' = [thr EXCEPT
                      ![t].pc = IF cacheOn THEN "add" ELSE "ret",
                      ![t].lookups = @ + n,
                      ![t].result = IF valid /\ Len(g.segments) > 1
                                    THEN g.segments ELSE << g.word >>]
                /\ UNCHANGED proc
        /\ UNCHANGED << lexicon, cacheOn, cache, ret, kept, config, mu,
                        settled >>

\* c.cache.Add(lower, result)
SplitAdd(t) ==
    /\ proc = "up"
    /\ thr[t].op = "Split" /\ thr[t].pc = "add"
    /\ cache' = CacheAdd(cache, thr[t].word, thr[t].result)
    /\ thr' = [thr EXCEPT ![t].pc = "ret"]
    /\ UNCHANGED << proc, lexicon, cacheOn, ret, kept, config, mu, settled >>

SplitStep(t) == SplitGet(t) \/ ScanStep(t) \/ CheckStep(t) \/ SplitAdd(t)

\* One goroutine splits one word; nothing changes the Lexicon.
InitSteps == InitLenient

NextSteps ==
    \/ \E w \in LenientInputs : thr["g1"].pc = "idle" /\ SplitCall("g1", w)
    \/ SplitGet("g1")
    \/ ScanStep("g1")
    \/ CheckStep("g1")
    \/ SplitAdd("g1")

SpecSteps == InitSteps /\ [][NextSteps]_vars

\* The goroutine has a step of Split to take: SplitStep(t) is enabled.
Running(t) == proc = "up" /\ InSplit(t)

\* The goroutine is scheduled until its call returns: weak fairness of
\* SplitStep("g1"), its enabling condition written as Running("g1").
FairSteps ==
    SpecSteps /\ ([]<>~Running("g1") \/ []<><<SplitStep("g1")>>_vars)

\* The most Contains calls one lenient check makes: two direct lookups and
\* two for every suffix.
MaxLenientLookups == 2 + 2 * Len(germanSuffixes)

\* A bound on the Contains calls of one Split of a word of n runes: in every
\* iteration one lenient check and strict checks of the shorter prefixes,
\* then one lenient check for every segment.
LookupBound(n) ==
    ((n + 1) \div 2) * (MaxLenientLookups + 2 * n)
        + (n \div 2) * MaxLenientLookups

\* C30 as claimed: the outer loop of the greedy scan begins at most
\* Len(word) / 2 iterations.
C30_HalfLength ==
    thr["g1"].op = "Split" => 2 * thr["g1"].iters <= Len(thr["g1"].word)

\* C30, amended: every Split that is called returns; every iteration but the
\* last has consumed at least 2 code points, so the iterations begun are at
\* most half the word's length rounded up (the iteration that finds no
\* candidate and ends the scan with the fallback consumes nothing), and the
\* number of Contains calls is bounded by a function of the length.
C30_Terminates ==
    /\ [](thr["g1"].op = "Split"
            => LET g == thr["g1"]
               IN  /\ g.iters <= (Len(g.word) + 1) \div 2
                   /\ g.iters >= 1
                        => Len(g.remaining) + 2 * (g.iters - 1) <= Len(g.word)
                   /\ g.lookups <= LookupBound(Len(g.word))
                   /\ g.pc = "ret" /\ ~g.hit
                        => g.result = splitUncached(fst, g.word))
    /\ (thr["g1"].op = "Split") ~> (thr["g1"].pc = "ret")

\* aaa over a dictionary with aa: the first iteration takes aa, the second
\* finds no candidate in the one rune that remains.
C30_Witness ==
    /\ thr["g1"].op = "Split" /\ thr["g1"].pc = "ret" /\ ~thr["g1"].hit
    /\ thr["g1"].word = << "a", "a", "a" >>
    /\ thr["g1"].iters = 2
    /\ thr["g1"].lookups > 0
    /\ thr["g1"].result = << << "a", "a", "a" >> >>

\* ------------------------------- Split while the owner changes the Lexicon
\* Two goroutines call Split on a Tokenizer whose owner adds or removes one
\* word and then clears the cache. AddWord and RemoveWord hold d.mu from
\* beginning to end, so the goroutines see each of them as one step.

RaceWord == << "a", "a", "s", "s" >>

RaceInputs == { RaceWord \o RaceWord, << "s", "s", "a", "a" >> }

RaceLexicons ==
    { { << "a", "a" >>, << "s", "s" >> },
      { << "a", "a" >>, << "s", "s" >>, RaceWord } }

InitRace ==
    /\ proc = "up"
    /\ words \in RaceLexicons
    /\ fst = OpenFST(words)
    /\ txtFile = TextOf(FileText(SortStrings(words)))
    /\ fstFile = ValidFile(words)
    /\ cacheOn \in BOOLEAN
    /\ cache = << >>
    /\ ret = NoRet
    /\ kept = NoneKept
    /\ config = InitConfig
    /\ mu = FreeMu /\ thr = NoThreads /\ settled = NoneSettled

\* The owner's calls: one AddWord of a word that is not in the Lexicon or one
\* RemoveWord of a word that is, then ClearCache.
OwnerMutates ==
    /\ ret.op = "none"
    /\ \/ RaceWord \notin words /\ TokAddWord(RaceWord, "ok", 0)
       \/ RaceWord \in words /\ TokRemoveWord(RaceWord, "ok", 0)
    /\ UNCHANGED << config, conc >>

OwnerClears ==
    /\ ret.op \in { "Tokenizer.AddWord", "Tokenizer.RemoveWord" }
    /\ ClearCache
    /\ UNCHANGED << config, conc >>

NextRace ==
    \/ \E t \in Splitters : \E w \in RaceInputs : SplitCall(t, w)
    \/ \E t \in Splitters : SplitGet(t)
    \/ \E t \in Splitters : ScanStep(t)
    \/ \E t \in Splitters : CheckStep(t)
    \/ \E t \in Splitters : SplitAdd(t)
    \/ OwnerMutates
    \/ OwnerClears

SpecRace == InitRace /\ [][NextRace]_vars

\* d.words as it was before the owner's AddWord or RemoveWord.
PriorWords ==
    CASE kept.op = "Tokenizer.AddWord"    -> words \ {kept.word}
      [] kept.op = "Tokenizer.RemoveWord" -> words \cup {kept.word}
      [] OTHER                            -> words

\* C25: a Split that began after the owner's mutation and ClearCache had
\* both returned returns the decomposition of its word under the Lexicon as
\* the mutation left it, whatever other Split calls were in progress.
C25_FreshAfterClear ==
    \A t \in Splitters :
        (thr[t].op = "Split" /\ thr[t].pc = "ret" /\ thr[t].late)
            => thr[t].result = splitUncached(fst, thr[t].word)

\* C26: the result a Split has computed (and is about to cache, or has
\* cached and returned) is the decomposition of its word under the Lexicon
\* as it was before the owner's mutation or as it is after it.
C26_OneSnapshot ==
    \A t \in Splitters :
        (thr[t].op = "Split" /\ thr[t].pc \in { "add", "ret" } /\ ~thr[t].hit)
            => thr[t].result \in { splitUncached(OpenFST(PriorWords), thr[t].word),
                                   splitUncached(fst, thr[t].word) }

====
